---------------------------- MODULE Spec2Model ----------------------------
(***************************************************************************)
(* Verification model of meex: the gap detector of cmd/vmucat, the         *)
(* statistics fold of the distrib server, the count and list loops of      *)
(* vmucat, the duplicate-suppressing writer, the trailer checksum, the     *)
(* frame decoder, and of the distrib server the time range of a query,     *)
(* the responders, the listing query and the archive walk.  Each component *)
(* has its own variables and its own specification; a specification keeps  *)
(* the other components' variables at their idle values.                   *)
(***************************************************************************)
EXTENDS Integers, Sequences, FiniteSets, TLC

VARIABLES
  gapIn, gapOut,                             \* gapByChannel / gapByOrigin
  stHist, gs, ps, rs, stPc,                  \* handleStatus
  cntCfg, stats, seen, cntHist, cntPc,       \* runCount
  lstKeep, lst, lstSeen, lstHist, lstPc,     \* runList
  ddLast, ddOut, ddHist, ddRet, ddPc,        \* NoDuplicate under runTake
  body, sumBase, sumKind, sumRes,            \* calculateSum
  frame, dumpRes,                            \* dumpPacket
  rngReq, rngRes,                            \* timeRange under the handlers
  negReq, negDs, negResp,                    \* negociateJSON / negociateCSV
  hlWin, hlSup, hlWork, hlQ, hlDs, hlFlag,   \* handleList
  wkIn, wkPc, wkQ, wkOut, wkLog,             \* Walk
  ixIn, ixOut,                               \* SortHRDIndex / SortTMIndex
  mxIn, mxRs, mxOut, mxPc,                   \* mixReaders.Read
  dlReq, dlH, dlW, dlResp,                   \* handleDownloads over Walk
  dfCfg, dfSeen, dfHist, dfOut, dfStats, dfPc  \* runDiff / handleGaps / handleStatus

gapVars == <<gapIn, gapOut>>
stVars  == <<stHist, gs, ps, rs, stPc>>
cntVars == <<cntCfg, stats, seen, cntHist, cntPc>>
lstVars == <<lstKeep, lst, lstSeen, lstHist, lstPc>>
ddVars  == <<ddLast, ddOut, ddHist, ddRet, ddPc>>
sumVars == <<body, sumBase, sumKind, sumRes>>
frmVars == <<frame, dumpRes>>
rngVars == <<rngReq, rngRes>>
negVars == <<negReq, negDs, negResp>>
hlVars  == <<hlWin, hlSup, hlWork, hlQ, hlDs, hlFlag>>
wkVars  == <<wkIn, wkPc, wkQ, wkOut, wkLog>>
cliVars == <<gapVars, stVars, cntVars, lstVars, ddVars, sumVars, frmVars>>
srvVars == <<rngVars, negVars, hlVars, wkVars>>
ixVars  == <<ixIn, ixOut>>
mxVars  == <<mxIn, mxRs, mxOut, mxPc>>
dlVars  == <<dlReq, dlH, dlW, dlResp>>
dfVars  == <<dfCfg, dfSeen, dfHist, dfOut, dfStats, dfPc>>
auxVars == <<ixVars, mxVars, dlVars, dfVars>>
vars == <<cliVars, srvVars, auxVars>>

(***************************************************************************)
(* Bounds of the model.                                                    *)
(***************************************************************************)
ByteBase == 2      \* a byte holds the values 0..ByteBase-1 (256 in the build)
MaxSeq == 3        \* sequence counters 0..MaxSeq
MaxTime == 3       \* packet timestamps 1..MaxTime
MaxDur == 2        \* maximum-gap durations -1..MaxDur

(***************************************************************************)
(* Integer widths.  TLC's integers are narrower than a uint32, so the      *)
(* widths are kept in bytes and the byte is scaled: a uint32 is four       *)
(* bytes and wraps at ByteBase^4, a uint64 is eight bytes and wraps at     *)
(* ByteBase^8.  Signed 64-bit ints never overflow within the bounds.       *)
(***************************************************************************)
Uint32Mod == ByteBase ^ 4
Uint64Mod == ByteBase ^ 8

Abs(x) == IF x < 0 THEN -x ELSE x

\* Go's conversion uint64(x) of a signed int x: two's complement.
ToUint64(x) == x % Uint64Mod

SeqVals == 0..MaxSeq
Times == 1..MaxTime
Durations == (-1)..MaxDur

\* time.Time{}: the zero time, before every packet timestamp.
ZeroTime == 0

(***************************************************************************)
(* meex.Gap and its derived values.  The type is declared outside the      *)
(* files at hand; Missing and Duration follow the data model of the        *)
(* specification: missing = |after - before| - 1, duration = timestamp     *)
(* delta.                                                                  *)
(***************************************************************************)
ZeroGap == [Id |-> 0, Starts |-> ZeroTime, Ends |-> ZeroTime, Last |-> 0, First |-> 0]

GapMissing(g) == Abs(g.First - g.Last) - 1

GapDuration(g) == g.Ends - g.Starts

(***************************************************************************)
(* vmu.Packet as cmd/vmucat reads it: the VMU header's channel, sequence   *)
(* and timestamp, the data header's origin, counter and acquisition time.  *)
(***************************************************************************)
byChannel(p) == p.Channel

byOrigin(p) == p.Origin

\* A plausible slip: the comparison against 0 instead of 1.
gapByChannel_OffByOne(p, prev, duration) ==
  LET last  == p.Sequence
      first == prev.Sequence
      delta == p.Timestamp - prev.Timestamp
      diff  == last - first
  IN  IF diff # 0 /\ (duration = 0 \/ delta <= duration)
      THEN [ok |-> TRUE,
            g  |-> [ZeroGap EXCEPT !.Last = first, !.First = last,
                                   !.Starts = prev.Timestamp, !.Ends = p.Timestamp]]
      ELSE [ok |-> FALSE, g |-> ZeroGap]

\* A plausible slip: the duration test dropped.
gapByChannel_NoDuration(p, prev, duration) ==
  LET last  == p.Sequence
      first == prev.Sequence
      diff  == last - first
  IN  IF diff # 1
      THEN [ok |-> TRUE,
            g  |-> [ZeroGap EXCEPT !.Last = first, !.First = last,
                                   !.Starts = prev.Timestamp, !.Ends = p.Timestamp]]
      ELSE [ok |-> FALSE, g |-> ZeroGap]

\* int(uint32) is exact on the 64-bit build: last and first are the counters.
gapByChannel(p, prev, duration) ==
  LET last  == p.Sequence
      first == prev.Sequence
      delta == p.Timestamp - prev.Timestamp
      diff  == last - first
  IN  IF diff # 1 /\ (duration = 0 \/ delta <= duration)
      THEN [ok |-> TRUE,
            g  |-> [ZeroGap EXCEPT !.Last = first, !.First = last,
                                   !.Starts = prev.Timestamp, !.Ends = p.Timestamp]]
      ELSE [ok |-> FALSE, g |-> ZeroGap]

\* A plausible slip: only forward jumps taken for gaps.
gapByOrigin_ForwardOnly(p, prev, duration) ==
  LET last  == p.Counter
      first == prev.Counter
      delta == p.Acquisition - prev.Acquisition
      diff  == last - first
  IN  IF diff > 1 /\ (duration = 0 \/ delta <= duration)
      THEN [ok |-> TRUE,
            g  |-> [ZeroGap EXCEPT !.Last = first, !.First = last,
                                   !.Starts = prev.Acquisition, !.Ends = p.Acquisition]]
      ELSE [ok |-> FALSE, g |-> ZeroGap]

\* A plausible slip: the bracketing values exchanged.
gapByOrigin_Exchanged(p, prev, duration) ==
  LET last  == p.Counter
      first == prev.Counter
      delta == p.Acquisition - prev.Acquisition
      diff  == last - first
  IN  IF diff # 1 /\ (duration = 0 \/ delta <= duration)
      THEN [ok |-> TRUE,
            g  |-> [ZeroGap EXCEPT !.Last = last, !.First = first,
                                   !.Starts = p.Acquisition, !.Ends = prev.Acquisition]]
      ELSE [ok |-> FALSE, g |-> ZeroGap]

gapByOrigin(p, prev, duration) ==
  LET last  == p.Counter
      first == prev.Counter
      delta == p.Acquisition - prev.Acquisition
      diff  == last - first
  IN  IF diff # 1 /\ (duration = 0 \/ delta <= duration)
      THEN [ok |-> TRUE,
            g  |-> [ZeroGap EXCEPT !.Last = first, !.First = last,
                                   !.Starts = prev.Acquisition, !.Ends = p.Acquisition]]
      ELSE [ok |-> FALSE, g |-> ZeroGap]

(***************************************************************************)
(* The gap detector applied to a pair of packets of one identifier, as     *)
(* runDiff applies it: gapBy(p, prev, *duration), gapBy chosen by -b.       *)
(* A header the chosen detector does not read is left at zero.             *)
(***************************************************************************)
VmuPacket(ch, org, sq, ctr, ts, acq, sz) ==
  [Channel |-> ch, Origin |-> org, Sequence |-> sq, Counter |-> ctr,
   Timestamp |-> ts, Acquisition |-> acq, Size |-> sz]

GapPackets(by) ==
  IF by = "channel"
  THEN {VmuPacket(1, 0, s, 0, t, ZeroTime, 0) : s \in SeqVals, t \in Times}
  ELSE {VmuPacket(0, 1, 0, c, ZeroTime, a, 0) : c \in SeqVals, a \in Times}

GapIdle == gapIn = [by |-> "none"] /\ gapOut = [done |-> FALSE]

GapInit ==
  /\ \E by \in {"channel", "origin"} :
       \E prev \in GapPackets(by), cur \in GapPackets(by), d \in Durations :
         gapIn = [by |-> by, prev |-> prev, cur |-> cur, duration |-> d]
  /\ gapOut = [done |-> FALSE]

ApplyGapByChannel ==
  /\ gapIn.by = "channel"
  /\ ~gapOut.done
  /\ LET r == gapByChannel(gapIn.cur, gapIn.prev, gapIn.duration)
     IN  gapOut' = [done |-> TRUE, ok |-> r.ok, g |-> r.g]
  /\ UNCHANGED gapIn

ApplyGapByOrigin ==
  /\ gapIn.by = "origin"
  /\ ~gapOut.done
  /\ LET r == gapByOrigin(gapIn.cur, gapIn.prev, gapIn.duration)
     IN  gapOut' = [done |-> TRUE, ok |-> r.ok, g |-> r.g]
  /\ UNCHANGED gapIn

\* The quantities the gap claims speak of.
GapKey(p) == IF gapIn.by = "channel" THEN p.Sequence ELSE p.Counter
GapTime(p) == IF gapIn.by = "channel" THEN p.Timestamp ELSE p.Acquisition
SeqDelta == GapKey(gapIn.cur) - GapKey(gapIn.prev)
Elapsed == GapTime(gapIn.cur) - GapTime(gapIn.prev)


(***************************************************************************)
(* C1: a pair of packets of one identifier whose counters differ by        *)
(* exactly one (cur = prev + 1) reports no gap, whatever the timestamps    *)
(* and the maximum-gap duration.                                           *)
(***************************************************************************)
C1_ConsecutiveNoGap ==
  (gapOut.done /\ SeqDelta = 1) => ~gapOut.ok

\* Consecutive counters, checked with a zero duration and with the pair
\* out of time order.
C1_Witness ==
  /\ gapOut.done
  /\ SeqDelta = 1
  /\ gapIn.duration = 0
  /\ Elapsed < 0

(***************************************************************************)
(* C2: a pair whose counter delta d is not 1, with the maximum-gap         *)
(* duration 0 or the elapsed time at most the duration, reports a gap      *)
(* whose missing count is |d| - 1.                                         *)
(***************************************************************************)
C2_GapWithinDuration ==
  (/\ gapOut.done
   /\ SeqDelta # 1
   /\ (gapIn.duration = 0 \/ Elapsed <= gapIn.duration))
  => (gapOut.ok /\ GapMissing(gapOut.g) = Abs(SeqDelta) - 1)

\* A backward jump of two within a positive duration: one counter missing.
C2_Witness ==
  /\ gapOut.done
  /\ gapIn.by = "origin"
  /\ SeqDelta = -2
  /\ gapIn.duration > 0
  /\ Elapsed = gapIn.duration
  /\ gapOut.ok
  /\ GapMissing(gapOut.g) = 1

(***************************************************************************)
(* C3: a pair whose counter delta is not 1 and whose elapsed time is       *)
(* strictly greater than a maximum-gap duration greater than 0 reports no  *)
(* gap.                                                                    *)
(***************************************************************************)
C3_NoGapBeyondDuration ==
  (/\ gapOut.done
   /\ SeqDelta # 1
   /\ gapIn.duration > 0
   /\ Elapsed > gapIn.duration)
  => ~gapOut.ok

\* A forward jump arriving later than the duration allows.
C3_Witness ==
  /\ gapOut.done
  /\ gapIn.by = "channel"
  /\ SeqDelta = 3
  /\ gapIn.duration = 1
  /\ Elapsed = 2
  /\ ~gapOut.ok

(***************************************************************************)
(* C20: a reported gap records Last = the counter of the previous packet,  *)
(* First = the counter of the current packet, Starts = the time of the     *)
(* previous packet and Ends = the time of the current packet, so           *)
(* Starts <= Ends when the two packets are in time order.                  *)
(***************************************************************************)
C20_GapBrackets ==
  (gapOut.done /\ gapOut.ok) =>
    /\ gapOut.g.Last = GapKey(gapIn.prev)
    /\ gapOut.g.First = GapKey(gapIn.cur)
    /\ gapOut.g.Starts = GapTime(gapIn.prev)
    /\ gapOut.g.Ends = GapTime(gapIn.cur)
    /\ Elapsed >= 0 => gapOut.g.Starts <= gapOut.g.Ends

\* A gap by origin over a forward jump of two, the packets in time order
\* and apart in time.
C20_Witness ==
  /\ gapOut.done /\ gapOut.ok
  /\ gapIn.by = "origin"
  /\ SeqDelta = 2
  /\ Elapsed > 0
  /\ gapOut.g.Last < gapOut.g.First
  /\ gapOut.g.Starts < gapOut.g.Ends

(***************************************************************************)
(* handleStatus: the statistics fold of the distrib server over the        *)
(* packets of one Walk.  A packet is read through the Packet interface:    *)
(* Id, Sequence, Len, Timestamp, and for a VMU packet the envelope's       *)
(* error word (HRH.Error).                                                 *)
(***************************************************************************)
MaxPackets == 3    \* packets delivered by the walk of one query

StIds == {7, 8}
StSeqs == {10, 11, 13}
StLens == {1, 2}
StErrors == {0, 1}

\* No packet: the zero value of the Packet interface, read from ps for an
\* identifier not seen yet.
NilPacket == [nil |-> TRUE]

StPacket(id, sq, ln, er, ts) ==
  [nil |-> FALSE, Id |-> id, Sequence |-> sq, Len |-> ln, Error |-> er,
   Timestamp |-> ts]

\* Packet.Diff is declared outside the files at hand; it follows the gap
\* detector of the specification with no maximum-gap duration: no gap
\* against no packet, no gap when the counters differ by one, otherwise the
\* gap bracketed by the two packets.
PacketDiff(p, prev) ==
  IF prev.nil
  THEN [nil |-> TRUE]
  ELSE LET diff == p.Sequence - prev.Sequence
       IN  IF diff # 1
           THEN [nil |-> FALSE,
                 g |-> [Id |-> p.Id, Starts |-> prev.Timestamp, Ends |-> p.Timestamp,
                        Last |-> prev.Sequence, First |-> p.Sequence]]
           ELSE [nil |-> TRUE]

\* Coze: Id int; Count, Size, Missing, Error uint64.
NewCoze(id) == [Id |-> id, Count |-> 0, Size |-> 0, Missing |-> 0, Error |-> 0]

MapGet(m, k, dflt) == IF k \in DOMAIN m THEN m[k] ELSE dflt

MapPut(m, k, v) == [x \in DOMAIN m \cup {k} |-> IF x = k THEN v ELSE m[x]]

\* A plausible slip: the entry replaced only when a gap was reported.
TrackerStore_OnlyOnGap(sn, id, p, reported) ==
  IF reported \/ id \notin DOMAIN sn THEN MapPut(sn, id, p) ELSE sn

\* seen[by] = p (runDiff), gs[id] = curr (handleGaps) and ps[id] = p
\* (handleStatus), after the comparison, whatever its outcome.
TrackerStore(sn, id, p, reported) == MapPut(sn, id, p)

\* The body of the loop "for p := range queue" for one packet p.
StatusFold(g, prevs, p, kind) ==
  LET id == p.Id
      c0 == MapGet(g, id, NewCoze(id))
      c1 == [c0 EXCEPT !.Count = (@ + 1) % Uint64Mod,
                       !.Size = (@ + p.Len) % Uint64Mod]
      d  == PacketDiff(p, MapGet(prevs, id, NilPacket))
      c2 == IF d.nil THEN c1
            ELSE [c1 EXCEPT !.Missing = (@ + ToUint64(GapMissing(d.g))) % Uint64Mod]
      c3 == IF kind = "hrd" /\ p.Error # 0
            THEN [c2 EXCEPT !.Error = (@ + 1) % Uint64Mod]
            ELSE c2
  IN  [gs |-> MapPut(g, id, c3), ps |-> TrackerStore(prevs, id, p, ~d.nil)]

StInit ==
  /\ stHist = << >>
  /\ gs = << >>
  /\ ps = << >>
  /\ rs = {}
  /\ \E k \in {"hrd", "tm"} : stPc = [at |-> "loop", kind |-> k]

\* The queue delivers the next packet; timestamps are one second apart.
StatusReceive ==
  /\ stPc.at = "loop"
  /\ Len(stHist) < MaxPackets
  /\ \E id \in StIds, sq \in StSeqs, ln \in StLens, er \in StErrors :
       LET p == StPacket(id, sq, ln, er, Len(stHist) + 1)
           r == StatusFold(gs, ps, p, stPc.kind)
       IN  /\ gs' = r.gs
           /\ ps' = r.ps
           /\ stHist' = Append(stHist, p)
  /\ UNCHANGED <<rs, stPc>>

\* The queue is closed: the cozes of the map are returned, in any order.
StatusReturn ==
  /\ stPc.at = "loop"
  /\ rs' = {gs[id] : id \in DOMAIN gs}
  /\ stPc' = [stPc EXCEPT !.at = "done"]
  /\ UNCHANGED <<stHist, gs, ps>>

\* What the stream held, for the claims.
StOf(id) == SelectSeq(stHist, LAMBDA p : p.Id = id)

RECURSIVE SumLen(_)
SumLen(q) == IF q = << >> THEN 0 ELSE Head(q).Len + SumLen(Tail(q))

\* The missing count of the gap detected between two packets, 0 without a gap.
PairMissing(prev, cur) ==
  LET d == cur.Sequence - prev.Sequence
  IN  IF d # 1 THEN Abs(d) - 1 ELSE 0

RECURSIVE SumMissing(_)
SumMissing(q) ==
  IF Len(q) < 2 THEN 0
  ELSE PairMissing(q[1], q[2]) + SumMissing(Tail(q))

(***************************************************************************)
(* C4: after the stream has been consumed the result holds exactly one     *)
(* Coze per identifier that occurred, with Count the number of its         *)
(* packets, Size the sum of their lengths and Missing the sum of the       *)
(* missing counts of the gaps detected between each packet and the         *)
(* previous packet of the identifier; with no packet in error, Error is 0  *)
(* (three packets of identifier 7 with sequences 10, 11, 13 give           *)
(* Coze{Id:7, Count:3, Missing:1, Error:0}).                               *)
(***************************************************************************)
C4_StatsPerIdentifier ==
  stPc.at = "done" =>
    /\ {c.Id : c \in rs} = {stHist[i].Id : i \in 1..Len(stHist)}
    /\ \A c \in rs, e \in rs : c.Id = e.Id => c = e
    /\ \A c \in rs :
         /\ c.Count = Len(StOf(c.Id))
         /\ c.Size = SumLen(StOf(c.Id))
         /\ c.Missing = SumMissing(StOf(c.Id))
         /\ (\A i \in 1..Len(stHist) : stHist[i].Error = 0) => c.Error = 0

(***************************************************************************)
(* runCount: the count mode of vmucat.  The decoder returns a packet       *)
(* (err nil), a packet whose checksum failed (vmu.ErrInvalid), a skip      *)
(* (vmu.ErrSkip), the end of the stream (io.EOF) or another error.         *)
(***************************************************************************)
MaxDecodes == 3    \* decode calls before the end of the stream
MaxCntSeq == 2     \* counters 0..MaxCntSeq of the counted packets

CntIds == {1, 2}
CntSizes == {1, 2}

\* meex.Coze{}: the zero value read from stats for an absent key.
ZeroCoze == [Id |-> 0, Count |-> 0, Size |-> 0, Missing |-> 0, Error |-> 0]

CntPackets(by) ==
  IF by = "channel"
  THEN {VmuPacket(id, 0, sq, 0, ZeroTime, ZeroTime, sz) :
          id \in CntIds, sq \in 0..MaxCntSeq, sz \in CntSizes}
  ELSE {VmuPacket(0, id, 0, sq, ZeroTime, ZeroTime, sz) :
          id \in CntIds, sq \in 0..MaxCntSeq, sz \in CntSizes}

getBy(by, p) == IF by = "channel" THEN byChannel(p) ELSE byOrigin(p)

\* The closures missBy: a uint32 difference converted to uint64, minus one.
missByChannel(p, prev) ==
  IF p.Sequence < prev.Sequence
  THEN 0
  ELSE (((p.Sequence - prev.Sequence) % Uint32Mod) - 1) % Uint64Mod

missByOrigin(p, prev) ==
  IF p.Counter < prev.Counter
  THEN 0
  ELSE (((p.Counter - prev.Counter) % Uint32Mod) - 1) % Uint64Mod

missBy(by, p, prev) ==
  IF by = "channel" THEN missByChannel(p, prev) ELSE missByOrigin(p, prev)

\* case nil, vmu.ErrInvalid: cz is a copy of stats[by]; "continue" leaves
\* the loop body before the copy is stored.
CountPacket(st, sn, cfg, p, invalid) ==
  LET by  == getBy(cfg.by, p)
      cz0 == MapGet(st, by, ZeroCoze)
      cz1 == [cz0 EXCEPT !.Count = (@ + 1) % Uint64Mod,
                         !.Size = (@ + p.Size) % Uint64Mod]
      cz2 == IF invalid THEN [cz1 EXCEPT !.Error = (@ + 1) % Uint64Mod] ELSE cz1
  IN  IF invalid /\ ~cfg.keepInvalid
      THEN [stats |-> st, seen |-> sn]
      ELSE LET cz3 == IF by \in DOMAIN sn
                      THEN [cz2 EXCEPT !.Missing =
                              (@ + missBy(cfg.by, p, sn[by])) % Uint64Mod]
                      ELSE cz2
           IN  [stats |-> MapPut(st, by, cz3), seen |-> MapPut(sn, by, p)]

CntInit ==
  /\ \E k \in BOOLEAN, b \in {"channel", "origin"} :
       cntCfg = [keepInvalid |-> k, by |-> b]
  /\ stats = << >>
  /\ seen = << >>
  /\ cntHist = << >>
  /\ cntPc = "loop"

CountDecodePacket ==
  /\ cntPc = "loop"
  /\ Len(cntHist) < MaxDecodes
  /\ \E p \in CntPackets(cntCfg.by), invalid \in BOOLEAN :
       LET r == CountPacket(stats, seen, cntCfg, p, invalid)
       IN  /\ stats' = r.stats
           /\ seen' = r.seen
           /\ cntHist' = Append(cntHist, [kind |-> "packet", p |-> p, invalid |-> invalid])
  /\ UNCHANGED <<cntCfg, cntPc>>

\* case vmu.ErrSkip: nothing.
CountDecodeSkip ==
  /\ cntPc = "loop"
  /\ Len(cntHist) < MaxDecodes
  /\ cntHist' = Append(cntHist, [kind |-> "skip"])
  /\ UNCHANGED <<cntCfg, stats, seen, cntPc>>

\* case io.EOF: one line per entry of stats is written, then return nil.
CountDecodeEOF ==
  /\ cntPc = "loop"
  /\ cntPc' = "done"
  /\ UNCHANGED <<cntCfg, stats, seen, cntHist>>

\* default: return err.
CountDecodeError ==
  /\ cntPc = "loop"
  /\ cntPc' = "failed"
  /\ UNCHANGED <<cntCfg, stats, seen, cntHist>>

\* The decoded packets of identifier id, valid or not, for the claims.
CntOf(id) ==
  SelectSeq(cntHist, LAMBDA e : e.kind = "packet" /\ getBy(cntCfg.by, e.p) = id)

RECURSIVE SumSize(_)
SumSize(q) == IF q = << >> THEN 0 ELSE Head(q).p.Size + SumSize(Tail(q))

(***************************************************************************)
(* C5: at the end of the stream every identifier that had a packet         *)
(* decoded, valid or invalid, has an entry whose Count is the number of    *)
(* its packets, whose Size is the sum of their sizes and whose Error is    *)
(* the number of its invalid packets, whether keep-invalid is set or not.  *)
(***************************************************************************)
C5_InvalidStillCounted ==
  cntPc = "done" =>
    \A id \in CntIds :
      LET q == CntOf(id)
      IN  q # << >> =>
            /\ id \in DOMAIN stats
            /\ stats[id].Count = Len(q)
            /\ stats[id].Size = SumSize(q)
            /\ stats[id].Error = Len(SelectSeq(q, LAMBDA e : e.invalid))

\* The stored packets of identifier id: the decoded packets but the invalid
\* ones dropped for want of keep-invalid.
CntKept(id) ==
  SelectSeq(CntOf(id), LAMBDA e : ~e.invalid \/ cntCfg.keepInvalid)

CntKey(p) == IF cntCfg.by = "channel" THEN p.Sequence ELSE p.Counter

\* The counters missing between the successive packets of q, forward jumps
\* only.
RECURSIVE ForwardJumps(_)
ForwardJumps(q) ==
  IF Len(q) < 2 THEN 0
  ELSE LET prev == CntKey(q[1].p)
           cur  == CntKey(q[2].p)
       IN  (IF cur > prev THEN cur - prev - 1 ELSE 0) + ForwardJumps(Tail(q))

(***************************************************************************)
(* C26: the amount added to Missing for a pair (prev, cur) of one          *)
(* identifier is cur - prev - 1 when cur > prev and 0 otherwise, a         *)
(* repeated counter adding 0: the cumulative Missing of an identifier is   *)
(* the sum of its forward counter jumps and never wraps around.            *)
(***************************************************************************)
C26_MissingIsForwardJumps ==
  \A id \in DOMAIN stats : stats[id].Missing = ForwardJumps(CntKept(id))

(***************************************************************************)
(* runList: the list mode of vmucat.  The loop "for i := 0; ; i++" runs    *)
(* its post statement i++ after every iteration that does not return,      *)
(* also after "continue".                                                  *)
(***************************************************************************)
LstChannels == {1, 2}
LstSeqs == {0, 2}
LstSizes == {1, 2}

LstPackets ==
  {VmuPacket(ch, 0, sq, 0, ZeroTime, ZeroTime, sz) :
     ch \in LstChannels, sq \in LstSeqs, sz \in LstSizes}

\* vmu.Packet.Missing belongs to the decoder library; it is taken as the
\* uint32 count of the counters skipped by a forward jump.
VmuMissing(p, prev) ==
  IF p.Sequence > prev.Sequence
  THEN (p.Sequence - prev.Sequence - 1) % Uint32Mod
  ELSE 0

\* case nil, vmu.ErrInvalid, with the post statement i++.
ListOnPacket(l, sn, keep, p, invalid) ==
  LET l1 == IF invalid THEN [l EXCEPT !.invalid = @ + 1] ELSE l
  IN  IF invalid /\ ~keep
      THEN [lst |-> [l1 EXCEPT !.i = @ + 1], seen |-> sn]
      ELSE LET ch   == p.Channel
               diff == IF ch \in DOMAIN sn THEN VmuMissing(p, sn[ch]) ELSE 0
           IN  [lst  |-> [l1 EXCEPT !.missing = @ + diff,
                                    !.size = @ + p.Size,
                                    !.i = @ + 1],
                seen |-> MapPut(sn, ch, p)]

\* A plausible slip: the skip without its i--.
ListOnSkip_Counted(l) ==
  [l EXCEPT !.skipped = @ + 1, !.i = @ + 1]

\* case vmu.ErrSkip: skipped++, i--, then the post statement i++.
ListOnSkip(l) ==
  [l EXCEPT !.skipped = @ + 1, !.i = (@ - 1) + 1]

LstInit ==
  /\ lstKeep \in BOOLEAN
  /\ lst = [i |-> 0, invalid |-> 0, size |-> 0, missing |-> 0, skipped |-> 0]
  /\ lstSeen = << >>
  /\ lstHist = << >>
  /\ lstPc = "loop"

ListDecodePacket ==
  /\ lstPc = "loop"
  /\ Len(lstHist) < MaxDecodes
  /\ \E p \in LstPackets, invalid \in BOOLEAN :
       LET r == ListOnPacket(lst, lstSeen, lstKeep, p, invalid)
       IN  /\ lst' = r.lst
           /\ lstSeen' = r.seen
           /\ lstHist' = Append(lstHist, [kind |-> "packet", p |-> p, invalid |-> invalid])
  /\ UNCHANGED <<lstKeep, lstPc>>

ListDecodeSkip ==
  /\ lstPc = "loop"
  /\ Len(lstHist) < MaxDecodes
  /\ lst' = ListOnSkip(lst)
  /\ lstHist' = Append(lstHist, [kind |-> "skip"])
  /\ UNCHANGED <<lstKeep, lstSeen, lstPc>>

\* case io.EOF: the totals are logged with the current i; return nil.
ListDecodeEOF ==
  /\ lstPc = "loop"
  /\ lstPc' = "done"
  /\ lstHist' = Append(lstHist, [kind |-> "eof"])
  /\ UNCHANGED <<lstKeep, lst, lstSeen>>

\* default: return err, nothing is logged.
ListDecodeError ==
  /\ lstPc = "loop"
  /\ lstPc' = "failed"
  /\ lstHist' = Append(lstHist, [kind |-> "error"])
  /\ UNCHANGED <<lstKeep, lst, lstSeen>>

LstCountKind(k) == Len(SelectSeq(lstHist, LAMBDA e : e.kind = k))

(***************************************************************************)
(* C6: a skip returned by the decoder neither ends the decode loop nor     *)
(* advances the packet counter: while the loop runs and when the totals    *)
(* are logged at the end of the stream, the packet count is the number of  *)
(* decode calls that returned a packet (valid or invalid) and the skipped  *)
(* count is the number of skips.                                           *)
(***************************************************************************)
C6_SkipNotCounted ==
  /\ lstPc \in {"loop", "done"} =>
       /\ lst.i = LstCountKind("packet")
       /\ lst.skipped = LstCountKind("skip")
  /\ (lstPc \in {"done", "failed"} /\ lstHist # << >>) =>
       lstHist[Len(lstHist)].kind \in {"eof", "error"}

\* The totals logged after a skip, a dropped invalid packet and a valid
\* packet: two packets, one skipped.
C6_Witness ==
  /\ lstPc = "done"
  /\ ~lstKeep
  /\ LstCountKind("skip") = 1
  /\ lst.invalid = 1
  /\ lst.i = 2
  /\ lstHist[1].kind = "skip"

(***************************************************************************)
(* NoDuplicate, the duplicate-suppressing writer, under the loop of        *)
(* runTake.  The writer is declared outside the files at hand and follows  *)
(* the specification: it retains the 64-bit hash of the most recently      *)
(* written chunk; a write whose hash equals the retained one is            *)
(* suppressed and reports success with the full length, any other chunk    *)
(* is written through and its hash retained.                               *)
(*                                                                         *)
(* Chunks are up to MaxBufferSize bytes long and so outnumber the 64-bit   *)
(* hashes: the hash is many-to-one.  The model keeps it so, with more      *)
(* chunks (1..MaxChunk) than hash values (0..MaxHash).                     *)
(***************************************************************************)
MaxWrites == 4     \* packets scanned by runTake
MaxChunk == 3      \* chunk contents 1..MaxChunk
MaxHash == 1       \* hash values 0..MaxHash

Chunks == 1..MaxChunk

ChunkLen(c) == 1 + (c % 2)

Sum64(c) == c % (MaxHash + 1)

\* One Write of the filter: what it retains, whether the chunk goes to the
\* underlying writer, and (when it does not) what it returns.
NoDuplicateWrite(last, c) ==
  LET h == Sum64(c)
  IN  IF last.set /\ last.hash = h
      THEN [last |-> last, through |-> FALSE, n |-> ChunkLen(c)]
      ELSE [last |-> [set |-> TRUE, hash |-> h], through |-> TRUE, n |-> ChunkLen(c)]

\* A plausible slip: the packet written to the split writer itself.
TakeWrite_Unfiltered(last, c) ==
  [last |-> last, through |-> TRUE, n |-> ChunkLen(c)]

\* runTake: ws.Write(s.Bytes()) with ws = NoDuplicate(w).
TakeWrite(last, c) == NoDuplicateWrite(last, c)

DdInit ==
  /\ ddLast = [set |-> FALSE]
  /\ ddOut = << >>
  /\ ddHist = << >>
  /\ ddRet = << >>
  /\ ddPc = "loop"

\* s.Scan() yields a packet and the filter suppresses it.
TakeSuppressed ==
  /\ ddPc = "loop"
  /\ Len(ddHist) < MaxWrites
  /\ \E c \in Chunks :
       LET r == TakeWrite(ddLast, c)
       IN  /\ ~r.through
           /\ ddLast' = r.last
           /\ ddHist' = Append(ddHist, c)
           /\ ddRet' = Append(ddRet, [n |-> r.n, err |-> FALSE])
  /\ UNCHANGED <<ddOut, ddPc>>

\* s.Scan() yields a packet and the underlying writer takes it.
TakeWritten ==
  /\ ddPc = "loop"
  /\ Len(ddHist) < MaxWrites
  /\ \E c \in Chunks :
       LET r == TakeWrite(ddLast, c)
       IN  /\ r.through
           /\ ddLast' = r.last
           /\ ddHist' = Append(ddHist, c)
           /\ ddOut' = Append(ddOut, [at |-> Len(ddHist) + 1, chunk |-> c])
           /\ ddRet' = Append(ddRet, [n |-> r.n, err |-> FALSE])
  /\ UNCHANGED ddPc

\* s.Scan() yields a packet and the underlying writer fails on it: the
\* error is returned.
TakeWriteFails ==
  /\ ddPc = "loop"
  /\ Len(ddHist) < MaxWrites
  /\ \E c \in Chunks :
       LET r == TakeWrite(ddLast, c)
       IN  /\ r.through
           /\ ddLast' = r.last
           /\ ddHist' = Append(ddHist, c)
           /\ ddOut' = Append(ddOut, [at |-> Len(ddHist) + 1, chunk |-> c])
           /\ ddRet' = Append(ddRet, [n |-> 0, err |-> TRUE])
  /\ ddPc' = "failed"

\* s.Scan() is false: return s.Err().
TakeEnd ==
  /\ ddPc = "loop"
  /\ ddPc' = "done"
  /\ UNCHANGED <<ddLast, ddOut, ddHist, ddRet>>

\* Whether the k-th write reached the underlying writer.
DdReached(k) == \E j \in 1..Len(ddOut) : ddOut[j].at = k

(***************************************************************************)
(* C7 as stated: a chunk reaches the underlying writer if and only if it   *)
(* differs from the chunk of the immediately preceding write, and a        *)
(* suppressed write reports success with the full chunk length.            *)
(***************************************************************************)
C7_ReachedIffChunkDiffers ==
  \A k \in 1..Len(ddHist) :
    /\ DdReached(k) <=> (k = 1 \/ ddHist[k] # ddHist[k - 1])
    /\ ~DdReached(k) => ddRet[k] = [n |-> ChunkLen(ddHist[k]), err |-> FALSE]

(***************************************************************************)
(* C7 as amended: a chunk reaches the underlying writer if and only if     *)
(* its hash differs from the hash of the chunk of the immediately          *)
(* preceding write (the first write always does); the chunks reach it in   *)
(* the order written, each once; a suppressed write reports success with   *)
(* the full chunk length.  So A, A gives one underlying write, and A, B,   *)
(* A gives three when the hashes of A and B differ.                        *)
(***************************************************************************)
C7_ReachedIffHashDiffers ==
  /\ \A k \in 1..Len(ddHist) :
       /\ DdReached(k) <=> (k = 1 \/ Sum64(ddHist[k]) # Sum64(ddHist[k - 1]))
       /\ ~DdReached(k) => ddRet[k] = [n |-> ChunkLen(ddHist[k]), err |-> FALSE]
  /\ \A j \in 1..Len(ddOut) :
       /\ ddOut[j].at \in 1..Len(ddHist)
       /\ ddOut[j].chunk = ddHist[ddOut[j].at]
       /\ j > 1 => ddOut[j - 1].at < ddOut[j].at

\* A, A, B, A with B of another hash: the second A is suppressed, the last
\* A is written again, three underlying writes in all.
C7_Witness ==
  /\ ddPc = "done"
  /\ Len(ddHist) = 4
  /\ ddHist[1] = ddHist[2]
  /\ ddHist[4] = ddHist[1]
  /\ Sum64(ddHist[3]) # Sum64(ddHist[1])
  /\ Len(ddOut) = 3
  /\ ddRet[2] = [n |-> ChunkLen(ddHist[2]), err |-> FALSE]

(***************************************************************************)
(* calculateSum: the trailer checksum.  body is the checked region: the    *)
(* summed bytes followed by the 4-byte little-endian trailer.  Go indexes  *)
(* from 0, the sequences here from 1: body[i] of the code is body[i + 1].  *)
(***************************************************************************)
MaxData == 33      \* summed bytes before the trailer: 0..MaxData

blockSize == 16

Bytes == 0..(ByteBase - 1)

\* binary.LittleEndian.Uint32 of the first four bytes of b.
LittleEndianUint32(b) ==
  b[1] + b[2] * ByteBase + b[3] * (ByteBase ^ 2) + b[4] * (ByteBase ^ 3)

\* A plausible slip: the last byte of a block left out.
BlockSum_SkipsLast(b, i) ==
  ( (b[i + 1] + b[i + 2] + b[i + 3] + b[i + 4])
  + (b[i + 5] + b[i + 6] + b[i + 7] + b[i + 8])
  + (b[i + 9] + b[i + 10] + b[i + 11] + b[i + 12])
  + (b[i + 13] + b[i + 14] + b[i + 15]) ) % Uint32Mod

\* A plausible slip: an index repeated, the first byte taken twice and the
\* second never.
BlockSum_RepeatsFirst(b, i) ==
  ( (b[i + 1] + b[i + 1] + b[i + 3] + b[i + 4])
  + (b[i + 5] + b[i + 6] + b[i + 7] + b[i + 8])
  + (b[i + 9] + b[i + 10] + b[i + 11] + b[i + 12])
  + (b[i + 13] + b[i + 14] + b[i + 15] + b[i + 16]) ) % Uint32Mod

\* The four additions of one pass of the block loop, in uint32.
BlockSum(b, i) ==
  ( (b[i + 1] + b[i + 2] + b[i + 3] + b[i + 4])
  + (b[i + 5] + b[i + 6] + b[i + 7] + b[i + 8])
  + (b[i + 9] + b[i + 10] + b[i + 11] + b[i + 12])
  + (b[i + 13] + b[i + 14] + b[i + 15] + b[i + 16]) ) % Uint32Mod

\* for i < (limit-blockSize)+1 { sum += ...; i += blockSize }
RECURSIVE BlockLoop(_, _, _, _)
BlockLoop(b, i, sum, limit) ==
  IF i < (limit - blockSize) + 1
  THEN BlockLoop(b, i + blockSize, (sum + BlockSum(b, i)) % Uint32Mod, limit)
  ELSE [i |-> i, sum |-> sum]

\* for i < limit { sum += uint32(body[i]); i++ }
RECURSIVE RemainderLoop(_, _, _, _)
RemainderLoop(b, i, sum, limit) ==
  IF i < limit
  THEN RemainderLoop(b, i + 1, (sum + b[i + 1]) % Uint32Mod, limit)
  ELSE [i |-> i, sum |-> sum]

calculateSum(b) ==
  LET limit    == Len(b) - 4
      blocks   == BlockLoop(b, 0, 0, limit)
      rest     == RemainderLoop(b, blocks.i, blocks.sum, limit)
      expected == LittleEndianUint32(SubSeq(b, limit + 1, Len(b)))
  IN  [sum |-> rest.sum,
       bad |-> IF expected # rest.sum THEN "invalid" ELSE "***"]

\* The bodies checked: L summed bytes, all equal to bg but for at most one
\* (at position p, when p > 0), and a trailer that holds the sum, the sum
\* plus one, or the sum with its bytes in the reverse order.
RECURSIVE PlainSum(_, _)
PlainSum(b, n) == IF n = 0 THEN 0 ELSE b[n] + PlainSum(b, n - 1)

DataOf(L, bg, p) == [k \in 1..L |-> IF k = p THEN (bg + 1) % ByteBase ELSE bg]

PutUint32(v) ==
  <<v % ByteBase, (v \div ByteBase) % ByteBase,
    (v \div (ByteBase ^ 2)) % ByteBase, (v \div (ByteBase ^ 3)) % ByteBase>>

TrailerOf(data, kind) ==
  LET v == PlainSum(data, Len(data)) % Uint32Mod
      t == PutUint32(v)
  IN  CASE kind = "sum"      -> t
        [] kind = "other"    -> PutUint32((v + 1) % Uint32Mod)
        [] kind = "reversed" -> <<t[4], t[3], t[2], t[1]>>

SumBodies ==
  {DataOf(L, bg, p) \o TrailerOf(DataOf(L, bg, p), kind) :
     L \in 0..MaxData, bg \in Bytes, p \in 0..MaxData,
     kind \in {"sum", "other", "reversed"}}

SumInit ==
  /\ body \in SumBodies
  /\ sumBase = [done |-> FALSE]
  /\ sumKind = "orig"
  /\ sumRes = [done |-> FALSE]

\* calculateSum is applied to the body at hand.
SumCalculate ==
  /\ sumKind \in {"orig", "perm", "mut"}
  /\ ~sumRes.done
  /\ LET r == calculateSum(body)
     IN  /\ sumRes' = [done |-> TRUE, sum |-> r.sum, bad |-> r.bad]
         /\ sumBase' = IF sumKind = "orig"
                       THEN [done |-> TRUE, sum |-> r.sum, bad |-> r.bad]
                       ELSE sumBase
  /\ UNCHANGED <<body, sumKind>>

\* Two bytes before the trailer of a valid body change places.
SumPermute ==
  /\ sumKind \in {"orig", "perm"}
  /\ sumBase.done /\ sumBase.bad = "***"
  /\ \E i \in 1..(Len(body) - 4), j \in 1..(Len(body) - 4) :
       /\ i < j
       /\ body' = [body EXCEPT ![i] = body[j], ![j] = body[i]]
  /\ sumKind' = "perm"
  /\ sumRes' = [done |-> FALSE]
  /\ UNCHANGED sumBase

\* One byte before the trailer of a valid body takes another value.
SumMutate ==
  /\ sumKind = "orig"
  /\ sumBase.done /\ sumBase.bad = "***"
  /\ \E i \in 1..(Len(body) - 4), v \in Bytes :
       /\ v # body[i]
       /\ body' = [body EXCEPT ![i] = v]
  /\ sumKind' = "mut"
  /\ sumRes' = [done |-> FALSE]
  /\ UNCHANGED sumBase

(***************************************************************************)
(* C8: for every body of at least 4 bytes the returned sum is the sum,     *)
(* modulo the uint32 range, of all bytes but the last 4, whatever the      *)
(* number of 16-byte blocks and the 0 to 15 bytes after them, and the      *)
(* body is reported valid exactly when that sum is the little-endian       *)
(* integer of the last 4 bytes.                                            *)
(***************************************************************************)
C8_SumOfAllButTrailer ==
  sumRes.done =>
    LET n == Len(body)
        s == PlainSum(body, n - 4) % Uint32Mod
        t == body[n - 3] + ByteBase * (body[n - 2] + ByteBase * (body[n - 1] + ByteBase * body[n]))
    IN  /\ sumRes.sum = s
        /\ (sumRes.bad = "***") <=> (s = t)

\* Two full blocks and one more byte, one byte unlike the others, the sum
\* past the uint32 range, and a trailer that holds it.
C8_Witness ==
  /\ sumRes.done
  /\ sumKind = "orig"
  /\ Len(body) = 2 * blockSize + 1 + 4
  /\ PlainSum(body, Len(body) - 4) >= Uint32Mod
  /\ \E i \in 1..(Len(body) - 4) : body[i] # body[Len(body) - 4]
  /\ sumRes.bad = "***"

(***************************************************************************)
(* C9: the bytes before the trailer of a valid body may change places and  *)
(* the body stays valid; one of them changing its value, the trailer       *)
(* unchanged, makes the body invalid.                                      *)
(***************************************************************************)
C9_OrderNotValue ==
  (sumRes.done /\ sumBase.done /\ sumBase.bad = "***") =>
    /\ sumKind = "perm" => sumRes.bad = "***"
    /\ sumKind = "mut" => sumRes.bad = "invalid"

\* A byte moved from the first block into the remainder of a valid body,
\* the body still valid.
C9_Witness ==
  /\ sumRes.done
  /\ sumKind = "perm"
  /\ sumBase.bad = "***"
  /\ Len(body) = blockSize + 2 + 4
  /\ body[blockSize + 2] # body[1]
  /\ \A k \in 1..(blockSize + 1) : body[k] = body[1]
  /\ sumRes.bad = "***"

(***************************************************************************)
(* dumpPacket with decodeHRDL, decodeVMU and decodeCommon: the frame       *)
(* decoder.  A frame is given by what the decoder reads of it: its length, *)
(* the payload size its channel header declares, the property byte of its  *)
(* common header and whether the checksum of the checked region fails.     *)
(* Each decode function is the list of its reads, <<offset, width>> into   *)
(* the slice it is handed; a read or a slice bound past the slice's        *)
(* length is Go's run-time panic, which nothing in the program recovers.   *)
(***************************************************************************)
MaxFrame == 90     \* frame lengths and declared sizes 0..MaxFrame

HRDLHeaderLen == 18
VMUHeaderLen == 24

FrmProperties == {0, 16, 32}      \* no class, science (1 << 4), image (2 << 4)

ReadsInRange(m, reads) == \A r \in reads : r[1] + r[2] <= m

\* decodeHRDL: Size, Error, Payload, Channel, PacketCoarse, PacketFine,
\* HRDPCoarse, HRDPFine.
decodeHRDL(m) ==
  ReadsInRange(m, {<<0, 4>>, <<4, 2>>, <<6, 1>>, <<7, 1>>, <<8, 4>>, <<12, 1>>,
                   <<13, 4>>, <<17, 1>>})

\* decodeVMU: Size, Channel, Origin, Sequence, Coarse, Fine.
decodeVMU(m) ==
  ReadsInRange(m, {<<4, 4>>, <<8, 1>>, <<9, 1>>, <<12, 4>>, <<16, 4>>, <<20, 2>>})

\* decodeCommon: Property, Stream, Counter, AcqTime, AuxTime, Origin, then
\* the UPI copied from body[24:] (science) or body[44:] (image); a slice
\* body[k:] needs k <= len(body) and copy takes what is there.
decodeCommon(m, property) ==
  /\ ReadsInRange(m, {<<0, 1>>, <<1, 2>>, <<3, 4>>, <<7, 8>>, <<15, 8>>, <<23, 1>>})
  /\ CASE property \div 16 = 1 -> 24 <= m
       [] property \div 16 = 2 -> 44 <= m
       [] OTHER -> TRUE

\* The checked region body[HRDLHeaderLen+8 : HRDLHeaderLen+8+size+4] is a
\* slice of size + 4 bytes within the frame; calculateSum stays inside it.
SumRegionInRange(len, size) ==
  /\ HRDLHeaderLen + 8 + size + 4 <= len
  /\ size + 4 >= 4

dumpPacket(f, withErr) ==
  IF f.len < HRDLHeaderLen + VMUHeaderLen
  THEN [kind |-> "short", want |-> 0, got |-> f.len, n |-> 0]
  ELSE IF ~decodeHRDL(HRDLHeaderLen) \/ ~decodeVMU(VMUHeaderLen)
  THEN [kind |-> "panic"]
  ELSE IF f.size > f.len - HRDLHeaderLen - 12
  THEN [kind |-> "short", want |-> f.size + 12,
        got |-> (f.len - HRDLHeaderLen - 12) + 12, n |-> 0]
  ELSE IF ~decodeCommon(f.len - (HRDLHeaderLen + VMUHeaderLen), f.property)
  THEN [kind |-> "panic"]
  ELSE IF ~SumRegionInRange(f.len, f.size)
  THEN [kind |-> "panic"]
  ELSE IF f.bad /\ ~withErr
  THEN [kind |-> "invalid", n |-> 0]
  ELSE IF f.bad
  THEN [kind |-> "invalid", n |-> f.size]
  ELSE [kind |-> "ok", n |-> f.size]

\* The frames: every length, every declared size, each property class.
\* Below the two fixed headers the declared size is not there to be read,
\* and below the property byte neither is the property.
Frames ==
  {[len |-> n, size |-> z, property |-> q, bad |-> b] :
     n \in 0..MaxFrame, z \in 0..MaxFrame, q \in FrmProperties, b \in BOOLEAN}

FrmInit ==
  /\ frame \in Frames
  /\ frame.len < HRDLHeaderLen + VMUHeaderLen => (frame.size = 0 /\ ~frame.bad)
  /\ frame.len <= HRDLHeaderLen + VMUHeaderLen => frame.property = 0
  /\ dumpRes = [kind |-> "none"]

\* main: dumpPacket(buffer[:n], digest.Sum64(), false), flag -e unset.
DumpDropInvalid ==
  /\ dumpRes.kind = "none"
  /\ dumpRes' = dumpPacket(frame, FALSE)
  /\ UNCHANGED frame

\* main: dumpPacket(buffer[:n], digest.Sum64(), true), flag -e set.
DumpKeepInvalid ==
  /\ dumpRes.kind = "none"
  /\ dumpRes' = dumpPacket(frame, TRUE)
  /\ UNCHANGED frame

(***************************************************************************)
(* C10: for every frame length and every declared payload size, decoding   *)
(* either succeeds (with the checksum's verdict) or returns a short-buffer *)
(* error carrying the wanted and the actual length; it never reads past    *)
(* the end of the frame.                                                   *)
(***************************************************************************)
C10_ShortBufferNeverPanic ==
  dumpRes.kind # "none" =>
    /\ dumpRes.kind \in {"ok", "invalid", "short"}
    /\ dumpRes.kind = "short" => (dumpRes.got <= frame.len /\ dumpRes.want >= 0)

(***************************************************************************)
(* Idle values of the components a specification does not run.             *)
(***************************************************************************)
StIdle ==
  /\ stHist = << >> /\ gs = << >> /\ ps = << >> /\ rs = {}
  /\ stPc = [at |-> "idle"]

CntIdle ==
  /\ cntCfg = [by |-> "none"] /\ stats = << >> /\ seen = << >>
  /\ cntHist = << >> /\ cntPc = "idle"

LstIdle ==
  /\ lstKeep = FALSE /\ lst = [i |-> 0] /\ lstSeen = << >>
  /\ lstHist = << >> /\ lstPc = "idle"

DdIdle ==
  /\ ddLast = [set |-> FALSE] /\ ddOut = << >> /\ ddHist = << >>
  /\ ddRet = << >> /\ ddPc = "idle"

SumIdle ==
  /\ body = << >> /\ sumBase = [done |-> FALSE] /\ sumKind = "idle"
  /\ sumRes = [done |-> FALSE]

FrmIdle == frame = << >> /\ dumpRes = [kind |-> "idle"]

RngIdle == rngReq = [route |-> "none"] /\ rngRes = [done |-> FALSE]

NegIdle ==
  negReq = [route |-> "none"] /\ negDs = [at |-> "idle"] /\ negResp = [done |-> FALSE]

HlIdle ==
  /\ hlWin = [fd |-> 0, td |-> 0] /\ hlSup = [pc |-> "idle"] /\ hlWork = << >>
  /\ hlQ = << >> /\ hlDs = [pc |-> "idle"] /\ hlFlag = [closed |-> 0]

WkIdle ==
  /\ wkIn = [paths |-> << >>] /\ wkPc = [at |-> "idle"] /\ wkQ = << >>
  /\ wkOut = << >> /\ wkLog = << >>

SrvIdle == RngIdle /\ NegIdle /\ HlIdle /\ WkIdle

CliIdle ==
  GapIdle /\ StIdle /\ CntIdle /\ LstIdle /\ DdIdle /\ SumIdle /\ FrmIdle

IxIdle == ixIn = [kind |-> "none"] /\ ixOut = [done |-> FALSE]

MxIdle ==
  /\ mxIn = [source |-> 0, target |-> 0] /\ mxRs = << >> /\ mxOut = << >>
  /\ mxPc = "idle"

DlIdle ==
  /\ dlReq = [rangeErr |-> FALSE] /\ dlH = [pc |-> "idle"] /\ dlW = [pc |-> "none"]
  /\ dlResp = [codes |-> << >>]

DfIdle ==
  /\ dfCfg = [mode |-> "none"] /\ dfSeen = << >> /\ dfHist = << >>
  /\ dfOut = << >> /\ dfStats = << >> /\ dfPc = "idle"

AuxIdle == IxIdle /\ MxIdle /\ DlIdle /\ DfIdle

(***************************************************************************)
(* The gap detector's specification.                                       *)
(***************************************************************************)
InitGap ==
  GapInit /\ StIdle /\ CntIdle /\ LstIdle /\ DdIdle /\ SumIdle /\ FrmIdle /\ SrvIdle
  /\ AuxIdle

NextGap ==
  \/ ApplyGapByChannel
       /\ UNCHANGED <<stVars, cntVars, lstVars, ddVars, sumVars, frmVars, srvVars, auxVars>>
  \/ ApplyGapByOrigin
       /\ UNCHANGED <<stVars, cntVars, lstVars, ddVars, sumVars, frmVars, srvVars, auxVars>>

SpecGap == InitGap /\ [][NextGap]_vars

(***************************************************************************)
(* The statistics query's specification.                                   *)
(***************************************************************************)
InitStatus ==
  StInit /\ GapIdle /\ CntIdle /\ LstIdle /\ DdIdle /\ SumIdle /\ FrmIdle /\ SrvIdle
  /\ AuxIdle

NextStatus ==
  \/ StatusReceive
       /\ UNCHANGED <<gapVars, cntVars, lstVars, ddVars, sumVars, frmVars, srvVars, auxVars>>
  \/ StatusReturn
       /\ UNCHANGED <<gapVars, cntVars, lstVars, ddVars, sumVars, frmVars, srvVars, auxVars>>

SpecStatus == InitStatus /\ [][NextStatus]_vars

(***************************************************************************)
(* The count mode's specification.                                         *)
(***************************************************************************)
InitCount ==
  CntInit /\ GapIdle /\ StIdle /\ LstIdle /\ DdIdle /\ SumIdle /\ FrmIdle /\ SrvIdle
  /\ AuxIdle

NextCount ==
  \/ CountDecodePacket
       /\ UNCHANGED <<gapVars, stVars, lstVars, ddVars, sumVars, frmVars, srvVars, auxVars>>
  \/ CountDecodeSkip
       /\ UNCHANGED <<gapVars, stVars, lstVars, ddVars, sumVars, frmVars, srvVars, auxVars>>
  \/ CountDecodeEOF
       /\ UNCHANGED <<gapVars, stVars, lstVars, ddVars, sumVars, frmVars, srvVars, auxVars>>
  \/ CountDecodeError
       /\ UNCHANGED <<gapVars, stVars, lstVars, ddVars, sumVars, frmVars, srvVars, auxVars>>

SpecCount == InitCount /\ [][NextCount]_vars

(***************************************************************************)
(* The list mode's specification.                                          *)
(***************************************************************************)
InitList ==
  LstInit /\ GapIdle /\ StIdle /\ CntIdle /\ DdIdle /\ SumIdle /\ FrmIdle /\ SrvIdle
  /\ AuxIdle

NextList ==
  \/ ListDecodePacket
       /\ UNCHANGED <<gapVars, stVars, cntVars, ddVars, sumVars, frmVars, srvVars, auxVars>>
  \/ ListDecodeSkip
       /\ UNCHANGED <<gapVars, stVars, cntVars, ddVars, sumVars, frmVars, srvVars, auxVars>>
  \/ ListDecodeEOF
       /\ UNCHANGED <<gapVars, stVars, cntVars, ddVars, sumVars, frmVars, srvVars, auxVars>>
  \/ ListDecodeError
       /\ UNCHANGED <<gapVars, stVars, cntVars, ddVars, sumVars, frmVars, srvVars, auxVars>>

SpecList == InitList /\ [][NextList]_vars

(***************************************************************************)
(* The take command's specification.                                       *)
(***************************************************************************)
InitTake ==
  DdInit /\ GapIdle /\ StIdle /\ CntIdle /\ LstIdle /\ SumIdle /\ FrmIdle /\ SrvIdle
  /\ AuxIdle

NextTake ==
  \/ TakeSuppressed
       /\ UNCHANGED <<gapVars, stVars, cntVars, lstVars, sumVars, frmVars, srvVars, auxVars>>
  \/ TakeWritten
       /\ UNCHANGED <<gapVars, stVars, cntVars, lstVars, sumVars, frmVars, srvVars, auxVars>>
  \/ TakeWriteFails
       /\ UNCHANGED <<gapVars, stVars, cntVars, lstVars, sumVars, frmVars, srvVars, auxVars>>
  \/ TakeEnd
       /\ UNCHANGED <<gapVars, stVars, cntVars, lstVars, sumVars, frmVars, srvVars, auxVars>>

SpecTake == InitTake /\ [][NextTake]_vars

(***************************************************************************)
(* The checksum's specification.                                           *)
(***************************************************************************)
InitSum ==
  SumInit /\ GapIdle /\ StIdle /\ CntIdle /\ LstIdle /\ DdIdle /\ FrmIdle /\ SrvIdle
  /\ AuxIdle

NextSum ==
  \/ SumCalculate
       /\ UNCHANGED <<gapVars, stVars, cntVars, lstVars, ddVars, frmVars, srvVars, auxVars>>
  \/ SumPermute
       /\ UNCHANGED <<gapVars, stVars, cntVars, lstVars, ddVars, frmVars, srvVars, auxVars>>
  \/ SumMutate
       /\ UNCHANGED <<gapVars, stVars, cntVars, lstVars, ddVars, frmVars, srvVars, auxVars>>

SpecSum == InitSum /\ [][NextSum]_vars

(***************************************************************************)
(* The frame decoder's specification.                                      *)
(***************************************************************************)
InitFrame ==
  FrmInit /\ GapIdle /\ StIdle /\ CntIdle /\ LstIdle /\ DdIdle /\ SumIdle /\ SrvIdle
  /\ AuxIdle

NextFrame ==
  \/ DumpDropInvalid
       /\ UNCHANGED <<gapVars, stVars, cntVars, lstVars, ddVars, sumVars, srvVars, auxVars>>
  \/ DumpKeepInvalid
       /\ UNCHANGED <<gapVars, stVars, cntVars, lstVars, ddVars, sumVars, srvVars, auxVars>>

SpecFrame == InitFrame /\ [][NextFrame]_vars

(***************************************************************************)
(* timeRange under the four handlers of the distrib server.  An instant is *)
(* a number of minutes since the zero time time.Time{}; a query parameter  *)
(* is absent (q.Get gives ""), malformed, or an RFC3339 instant, the zero  *)
(* instant 0001-01-01T00:00:00Z included.                                  *)
(***************************************************************************)
\* Five, the archive granularity: declared outside the files at hand, five
\* minutes by the specification.
Five == 5

\* MaxInterval = time.Hour * 24, in minutes.
MaxInterval == 24 * 60

RngInstants == {ZeroTime, 3, 5, 10, 12, 60, 1443, 1450, 3000}

\* time.Now(): aligned or not on the granularity, never the zero time.
RngNows == {5000, 5002}

AbsentParam == [k |-> "absent"]
BadParam == [k |-> "bad"]
TimeParam(t) == [k |-> "time", t |-> t]

RngParams == {AbsentParam, BadParam} \cup {TimeParam(t) : t \in RngInstants}

\* time.Parse(time.RFC3339, s): the instant, or the zero time and an error
\* (the empty string of an absent parameter does not parse).
ParseRFC3339(p) ==
  IF p.k = "time" THEN [t |-> p.t, err |-> FALSE]
  ELSE [t |-> ZeroTime, err |-> TRUE]

IsZero(t) == t = ZeroTime

\* Time.Truncate(d): down to a multiple of d since the zero time.
Truncate(t, d) == t - (t % d)

InvalidRequestError(msg) == [err |-> TRUE, type |-> "InvalidRequestError", msg |-> msg]

\* td.Add(Five).Truncate(Five)
SnapEnd(td) == Truncate(td + Five, Five)

timeRange(req, delta) ==
  LET a == ParseRFC3339(req.dtstart)
      b == ParseRFC3339(req.dtend)
      dflt == IsZero(a.t) /\ IsZero(b.t)
      td == IF dflt THEN req.now ELSE b.t
      fd == IF dflt THEN req.now + (60 * (-24)) ELSE a.t
  IN  IF req.dtstart.k # "absent" /\ a.err
        THEN InvalidRequestError("bad format dtstart query parameter")
      ELSE IF req.dtend.k # "absent" /\ b.err
        THEN InvalidRequestError("bad format dtend query parameter")
      ELSE IF IsZero(fd) \/ IsZero(td)
        THEN InvalidRequestError("both dtstart and dtend should be provided")
      ELSE IF td < fd \/ (delta > 0 /\ td - fd > delta)
        THEN InvalidRequestError("invalid interval")
      ELSE [err |-> FALSE, fd |-> Truncate(fd, Five), td |-> SnapEnd(td)]

\* A handler returns on the error and otherwise walks ListPaths(datadir, fd, td).
WalkOf(r) ==
  IF r.err THEN [used |-> FALSE] ELSE [used |-> TRUE, fd |-> r.fd, td |-> r.td]

RngRoutes == {"stats", "gaps", "list", "downloads"}

RngInit ==
  /\ rngReq \in [route : RngRoutes, dtstart : RngParams, dtend : RngParams,
                 now : RngNows]
  /\ rngRes = [done |-> FALSE]

HandleRange(route, delta) ==
  /\ rngReq.route = route
  /\ ~rngRes.done
  /\ LET r == timeRange(rngReq, delta)
     IN  rngRes' = [done |-> TRUE, res |-> r, walk |-> WalkOf(r)]
  /\ UNCHANGED rngReq

\* handleStatus: timeRange(r, MaxInterval)
HandleStatusRange == HandleRange("stats", MaxInterval)

\* handleGaps: timeRange(r, MaxInterval)
HandleGapsRange == HandleRange("gaps", MaxInterval)

\* handleList: timeRange(r, 0)
HandleListRange == HandleRange("list", 0)

\* handleDownloads: timeRange(r, 0)
HandleDownloadsRange == HandleRange("downloads", 0)

Present(p) == p.k # "absent"

RngRejected ==
  /\ rngRes.res.err
  /\ rngRes.res.type = "InvalidRequestError"
  /\ ~rngRes.walk.used

RngAccepted == ~rngRes.res.err /\ rngRes.walk.used

RngBothTimes == rngReq.dtstart.k = "time" /\ rngReq.dtend.k = "time"

RngCapped == rngReq.route \in {"stats", "gaps"}

\* The start and the end the request asks for: its parameters, or the 24
\* hours ending now when it has neither.
RngAskedStart ==
  IF Present(rngReq.dtstart) THEN rngReq.dtstart.t ELSE rngReq.now - MaxInterval

RngAskedEnd ==
  IF Present(rngReq.dtend) THEN rngReq.dtend.t ELSE rngReq.now

RoundUp(t, d) == IF t % d = 0 THEN t ELSE (t - (t % d)) + d

(***************************************************************************)
(* C11: a request with exactly one of dtstart / dtend present is rejected  *)
(* with InvalidRequestError, and so is a request whose dtend is before its *)
(* dtstart; in both cases no time range is used for a walk.                *)
(***************************************************************************)
C11_OneBoundOrReversedRejected ==
  rngRes.done =>
    /\ (Present(rngReq.dtstart) # Present(rngReq.dtend)) => RngRejected
    /\ (RngBothTimes /\ rngReq.dtend.t < rngReq.dtstart.t) => RngRejected

(***************************************************************************)
(* C12: a stats or gaps query is rejected with InvalidRequestError when    *)
(* dtend - dtstart exceeds 24 hours and accepted when the difference is    *)
(* from 0 to 24 hours, the request with neither bound included (the 24     *)
(* hours ending now); a listing or download query is never rejected for    *)
(* its span.                                                               *)
(***************************************************************************)
C12_SpanCap ==
  rngRes.done =>
    LET span == rngReq.dtend.t - rngReq.dtstart.t
    IN  /\ (RngCapped /\ RngBothTimes /\ span > MaxInterval) => RngRejected
        /\ (RngCapped /\ RngBothTimes /\ span >= 0 /\ span <= MaxInterval)
             => RngAccepted
        /\ (RngCapped /\ ~Present(rngReq.dtstart) /\ ~Present(rngReq.dtend))
             => /\ RngAccepted
                /\ rngRes.walk.fd <= rngReq.now - MaxInterval
                /\ rngRes.walk.td >= rngReq.now
        /\ (~RngCapped /\ RngBothTimes /\ span >= 0) => RngAccepted

(***************************************************************************)
(* C13: for every accepted request the returned start is the requested     *)
(* start truncated down to a 5-minute boundary and the returned end is the *)
(* smallest multiple of 5 minutes not before the requested end (an end on  *)
(* a boundary is returned unchanged).                                      *)
(***************************************************************************)
C13_SnappedOutward ==
  (rngRes.done /\ RngAccepted) =>
    /\ rngRes.walk.fd = Truncate(RngAskedStart, Five)
    /\ rngRes.walk.td = RoundUp(RngAskedEnd, Five)

(***************************************************************************)
(* The time range's specification.                                         *)
(***************************************************************************)
InitRange == RngInit /\ CliIdle /\ AuxIdle /\ NegIdle /\ HlIdle /\ WkIdle

NextRange ==
  \/ HandleStatusRange /\ UNCHANGED <<cliVars, auxVars, negVars, hlVars, wkVars>>
  \/ HandleGapsRange /\ UNCHANGED <<cliVars, auxVars, negVars, hlVars, wkVars>>
  \/ HandleListRange /\ UNCHANGED <<cliVars, auxVars, negVars, hlVars, wkVars>>
  \/ HandleDownloadsRange /\ UNCHANGED <<cliVars, auxVars, negVars, hlVars, wkVars>>

SpecRange == InitRange /\ [][NextRange]_vars

(***************************************************************************)
(* negociateJSON and negociateCSV over the handlers of the stats, gaps and *)
(* listing queries.  A handler declares its result as a slice of its own   *)
(* type (var rs cozes, var ds gaps, var ds infos), appends to it and       *)
(* returns it as an interface{}.  A slice is nil until the first append;   *)
(* an interface value is nil only when it holds no type, so a nil slice    *)
(* returned as interface{} holds the slice's type and is not nil.          *)
(***************************************************************************)
MaxItems == 2      \* cozes, gaps or infos appended by one query

NegRoutes == {"stats", "gaps", "list"}
NegAccepts == {"application/json", "text/csv"}
NegItems == {1, 2}

StatusOK == 200
StatusNoContent == 204
StatusBadRequest == 400
StatusInternalServerError == 500

NilSlice == [nil |-> TRUE, els |-> << >>]

\* append(s, x)
AppendSlice(s, x) == [nil |-> FALSE, els |-> Append(s.els, x)]

NilInterface == [type |-> "nil"]

\* The conversion of a slice of a named type to interface{}.
ToInterface(type, s) == [type |-> type, val |-> s]

\* ds == nil on an interface{}.
IsNilInterface(v) == v.type = "nil"

SliceTypeOf(route) ==
  CASE route = "stats" -> "cozes"
    [] route = "gaps"  -> "gaps"
    [] route = "list"  -> "infos"

\* codeFromError
codeFromError(err) ==
  IF err = "InvalidRequestError" THEN StatusBadRequest
  ELSE StatusInternalServerError

\* json.NewEncoder(w).Encode(ds): a nil slice encodes as null, any other
\* as an array of its elements.
EncodeJSON(v) ==
  IF v.val.nil THEN [text |-> "null", rows |-> 0]
  ELSE [text |-> "array", rows |-> Len(v.val.els)]

\* exportCSV: one row per element, nothing written for no element.
ExportCSV(v) ==
  IF Len(v.val.els) = 0 THEN [text |-> "", rows |-> 0]
  ELSE [text |-> "rows", rows |-> Len(v.val.els)]

NoBody == [text |-> "", rows |-> 0]

NegInit ==
  /\ negReq \in [route : NegRoutes, accept : NegAccepts]
  /\ negDs = [at |-> "run", ds |-> NilSlice]
  /\ negResp = [done |-> FALSE]

\* timeRange fails: return nil, err
HandlerFails ==
  /\ negDs.at = "run"
  /\ negDs.ds = NilSlice
  /\ negDs' = [at |-> "returned", ds |-> NilInterface, err |-> "InvalidRequestError"]
  /\ UNCHANGED <<negReq, negResp>>

\* rs = append(rs, c) / ds = append(ds, g) / ds = append(ds, i)
HandlerAppend ==
  /\ negDs.at = "run"
  /\ Len(negDs.ds.els) < MaxItems
  /\ \E x \in NegItems : negDs' = [negDs EXCEPT !.ds = AppendSlice(@, x)]
  /\ UNCHANGED <<negReq, negResp>>

\* return rs, nil / return ds, nil
HandlerReturn ==
  /\ negDs.at = "run"
  /\ negDs' = [at |-> "returned",
               ds |-> ToInterface(SliceTypeOf(negReq.route), negDs.ds),
               err |-> "nil"]
  /\ UNCHANGED <<negReq, negResp>>

Respond(export) ==
  IF negDs.err # "nil"
    THEN [done |-> TRUE, status |-> codeFromError(negDs.err), body |-> [text |-> "error", rows |-> 0]]
  ELSE IF IsNilInterface(negDs.ds)
    THEN [done |-> TRUE, status |-> StatusNoContent, body |-> NoBody]
  ELSE [done |-> TRUE, status |-> StatusOK, body |-> export]

NegociateJSON ==
  /\ negReq.accept = "application/json"
  /\ negDs.at = "returned"
  /\ ~negResp.done
  /\ negResp' = Respond(EncodeJSON(negDs.ds))
  /\ UNCHANGED <<negReq, negDs>>

\* cozes, gaps and infos all have exportCSV: the 501 answer is never taken.
NegociateCSV ==
  /\ negReq.accept = "text/csv"
  /\ negDs.at = "returned"
  /\ ~negResp.done
  /\ negResp' = Respond(ExportCSV(negDs.ds))
  /\ UNCHANGED <<negReq, negDs>>

(***************************************************************************)
(* C14: when a stats, gaps or listing query produces no element (no packet *)
(* decoded, no gap detected), the JSON and the CSV responder answer with   *)
(* the no-content status and write no body.                                *)
(***************************************************************************)
C14_EmptyIsNoContent ==
  (/\ negResp.done
   /\ negDs.err = "nil"
   /\ Len(negDs.ds.val.els) = 0)
    => (negResp.status = StatusNoContent /\ negResp.body = NoBody)

(***************************************************************************)
(* The responders' specification.                                          *)
(***************************************************************************)
InitNeg == NegInit /\ CliIdle /\ AuxIdle /\ RngIdle /\ HlIdle /\ WkIdle

NextNeg ==
  \/ HandlerFails /\ UNCHANGED <<cliVars, auxVars, rngVars, hlVars, wkVars>>
  \/ HandlerAppend /\ UNCHANGED <<cliVars, auxVars, rngVars, hlVars, wkVars>>
  \/ HandlerReturn /\ UNCHANGED <<cliVars, auxVars, rngVars, hlVars, wkVars>>
  \/ NegociateJSON /\ UNCHANGED <<cliVars, auxVars, rngVars, hlVars, wkVars>>
  \/ NegociateCSV /\ UNCHANGED <<cliVars, auxVars, rngVars, hlVars, wkVars>>

SpecNeg == InitNeg /\ [][NextNeg]_vars

(***************************************************************************)
(* handleList: the listing query.  The handler makes the channel q and     *)
(* starts the supervising routine, which starts one worker per 4-hour      *)
(* sub-window (errgroup.Group.Go), waits for them (group.Wait) and closes  *)
(* q (defer close(q)); the handler itself ranges over q.  A worker ranges  *)
(* over its own Walk and sends one Info per packet.  An Info is named by   *)
(* its worker and its rank in that worker's walk.                          *)
(***************************************************************************)
MaxWindows == 2    \* sub-windows of one listing query
MaxEmit == 2       \* packets delivered by the walk of one sub-window
QCap == 2          \* capacity of q (1000 in the build)

\* time.Hour * 4, in minutes.
FourHours == 4 * 60

HlStarts == {1440}

\* Spans of 1 to MaxWindows whole sub-windows, and the shortest span.
HlSpans == {Five} \cup {FourHours * k : k \in 1..MaxWindows}

\* A plausible slip: close(q) without waiting for the group.
GroupDone_NoWait == TRUE

\* group.Wait() returns: every function started with group.Go has returned.
GroupDone == \A w \in 1..Len(hlWork) : hlWork[w].pc = "done"

\* A plausible slip: the range ends as soon as the channel is empty.
RangeEnds_OnEmpty == hlQ = << >>

\* for i := range q ends: q is closed and drained.
RangeEnds == hlQ = << >> /\ hlFlag.closed > 0

\* A plausible slip: the last Info sent is the first received.
ChanSend_Stack(q, i) == <<i>> \o q

\* q <- i on a channel with room: first in, first out.
ChanSend(q, i) == Append(q, i)

HlInit ==
  /\ \E f \in HlStarts, s \in HlSpans : hlWin = [fd |-> f, td |-> f + s]
  /\ hlSup = [pc |-> "loop"]
  /\ hlWork = << >>
  /\ hlQ = << >>
  /\ hlDs = [pc |-> "range", ds |-> << >>]
  /\ hlFlag = [closed |-> 0, panic |-> FALSE]

\* for fd.Before(td) { f, t := fd, fd.Add(time.Hour*4); group.Go(...); fd = t }
SupervisorGo ==
  /\ hlSup.pc = "loop"
  /\ hlWin.fd < hlWin.td
  /\ hlWork' = Append(hlWork, [f |-> hlWin.fd, t |-> hlWin.fd + FourHours,
                               pc |-> "recv", n |-> 0])
  /\ hlWin' = [hlWin EXCEPT !.fd = @ + FourHours]
  /\ UNCHANGED <<hlSup, hlQ, hlDs, hlFlag>>

\* group.Wait()
SupervisorWait ==
  /\ hlSup.pc = "loop"
  /\ ~(hlWin.fd < hlWin.td)
  /\ GroupDone
  /\ hlSup' = [pc |-> "defer"]
  /\ UNCHANGED <<hlWin, hlWork, hlQ, hlDs, hlFlag>>

\* defer close(q)
SupervisorClose ==
  /\ hlSup.pc = "defer"
  /\ hlSup' = [pc |-> "done"]
  /\ hlFlag' = [hlFlag EXCEPT !.closed = @ + 1]
  /\ UNCHANGED <<hlWin, hlWork, hlQ, hlDs>>

\* for p := range Walk(...): the walk delivers its next packet.
WorkerReceive(w) ==
  /\ hlWork[w].pc = "recv"
  /\ hlWork[w].n < MaxEmit
  /\ hlWork' = [hlWork EXCEPT ![w].pc = "send", ![w].n = @ + 1]
  /\ UNCHANGED <<hlWin, hlSup, hlQ, hlDs, hlFlag>>

\* for p := range Walk(...): the walk's channel is closed; return nil.
WorkerReturn(w) ==
  /\ hlWork[w].pc = "recv"
  /\ hlWork' = [hlWork EXCEPT ![w].pc = "done"]
  /\ UNCHANGED <<hlWin, hlSup, hlQ, hlDs, hlFlag>>

\* q <- p.PacketInfo(): blocks while q is full, panics on a closed q.
WorkerSend(w) ==
  /\ hlWork[w].pc = "send"
  /\ hlFlag.closed > 0 \/ Len(hlQ) < QCap
  /\ IF hlFlag.closed > 0
       THEN /\ hlFlag' = [hlFlag EXCEPT !.panic = TRUE]
            /\ hlWork' = [hlWork EXCEPT ![w].pc = "done"]
            /\ UNCHANGED hlQ
       ELSE /\ hlQ' = ChanSend(hlQ, [w |-> w, k |-> hlWork[w].n])
            /\ hlWork' = [hlWork EXCEPT ![w].pc = "recv"]
            /\ UNCHANGED hlFlag
  /\ UNCHANGED <<hlWin, hlSup, hlDs>>

\* for i := range q { ds = append(ds, i) }
ConsumerReceive ==
  /\ hlDs.pc = "range"
  /\ hlQ # << >>
  /\ hlDs' = [hlDs EXCEPT !.ds = Append(@, Head(hlQ))]
  /\ hlQ' = Tail(hlQ)
  /\ UNCHANGED <<hlWin, hlSup, hlWork, hlFlag>>

\* return ds, nil
ConsumerReturn ==
  /\ hlDs.pc = "range"
  /\ RangeEnds
  /\ hlDs' = [hlDs EXCEPT !.pc = "returned"]
  /\ UNCHANGED <<hlWin, hlSup, hlWork, hlQ, hlFlag>>

HlWorkers == 1..Len(hlWork)

\* The positions of worker w's k-th Info in the returned list.
HlPlaces(w, k) == {j \in 1..Len(hlDs.ds) : hlDs.ds[j] = [w |-> w, k |-> k]}

RECURSIVE HlEmitted(_)
HlEmitted(w) == IF w = 0 THEN 0 ELSE hlWork[w].n + HlEmitted(w - 1)

(***************************************************************************)
(* C15: q is closed at most once, by the supervising routine after its     *)
(* loop has started every worker and every worker has returned, and no     *)
(* worker sends on the closed channel.                                     *)
(***************************************************************************)
C15_ClosedOnceAfterWorkers ==
  /\ hlFlag.closed <= 1
  /\ ~hlFlag.panic
  /\ hlFlag.closed = 1 =>
       /\ hlSup.pc = "done"
       /\ ~(hlWin.fd < hlWin.td)
       /\ \A w \in HlWorkers : hlWork[w].pc = "done"

\* q closed with two workers returned, both having sent, Infos still in q.
C15_Witness ==
  /\ hlFlag.closed = 1
  /\ Len(hlWork) >= 2
  /\ \A w \in HlWorkers : hlWork[w].pc = "done" /\ hlWork[w].n >= 1
  /\ hlQ # << >>

(***************************************************************************)
(* C16: with every walk ending, the handler returns, also with more        *)
(* packets than q holds, and the returned list holds each Info a worker    *)
(* sent exactly once.                                                      *)
(***************************************************************************)
HlExactlyOnce ==
  /\ \A w \in HlWorkers : \A k \in 1..hlWork[w].n : Cardinality(HlPlaces(w, k)) = 1
  /\ Len(hlDs.ds) = HlEmitted(Len(hlWork))

C16_ReturnsEveryInfoOnce ==
  /\ <>(hlDs.pc = "returned")
  /\ [](hlDs.pc = "returned" => HlExactlyOnce)

\* Returned with more Infos than q holds, from at least two workers.
C16_Witness ==
  /\ hlDs.pc = "returned"
  /\ Len(hlDs.ds) > QCap
  /\ Len(hlWork) >= 2
  /\ \A w \in HlWorkers : hlWork[w].n >= 1

(***************************************************************************)
(* C17: two Infos of one worker stand in the returned list in the order    *)
(* the worker's walk delivered their packets.                              *)
(***************************************************************************)
C17_OrderWithinWorker ==
  \A i, j \in 1..Len(hlDs.ds) :
    (i < j /\ hlDs.ds[i].w = hlDs.ds[j].w) => hlDs.ds[i].k < hlDs.ds[j].k

\* Returned with two Infos of one worker and the workers interleaved: an
\* Info of a later sub-window before one of an earlier sub-window.
C17_Witness ==
  /\ hlDs.pc = "returned"
  /\ \E i, j \in 1..Len(hlDs.ds) : i < j /\ hlDs.ds[i].w = hlDs.ds[j].w
  /\ \E i, j \in 1..Len(hlDs.ds) : i < j /\ hlDs.ds[i].w > hlDs.ds[j].w

\* The sub-windows handed to the workers follow one another from the start.
HlConsecutive ==
  /\ hlWork # << >> => hlWork[1].f \in HlStarts
  /\ \A w \in 1..Len(hlWork) :
       /\ hlWork[w].f < hlWork[w].t
       /\ hlWork[w].t - hlWork[w].f <= FourHours
       /\ w > 1 => hlWork[w].f = hlWork[w - 1].t

\* No sub-window reaches past the end of the request interval.
HlWithinEnd == \A w \in 1..Len(hlWork) : hlWork[w].t <= hlWin.td

\* Once the supervisor has left its loop the sub-windows reach the end.
HlCovers ==
  hlSup.pc # "loop" => hlWork # << >> /\ hlWork[Len(hlWork)].t >= hlWin.td

(***************************************************************************)
(* C24.  Listing query sub-windows: the intervals [f, t) handed to the     *)
(* workers are consecutive, pairwise disjoint and at most 4 hours long,    *)
(* and their union is exactly the request interval [start, end): every     *)
(* instant of it is in exactly one sub-window and no worker walks archive  *)
(* time at or after end.                                                   *)
(***************************************************************************)
C24_WindowsPartition == HlConsecutive /\ HlWithinEnd /\ HlCovers


(***************************************************************************)
(* The listing query's specifications: every interleaving, and every       *)
(* interleaving in which a routine that can run does run.                  *)
(***************************************************************************)
InitServeList == HlInit /\ CliIdle /\ AuxIdle /\ RngIdle /\ NegIdle /\ WkIdle

NextServeList ==
  \/ SupervisorGo /\ UNCHANGED <<cliVars, auxVars, rngVars, negVars, wkVars>>
  \/ SupervisorWait /\ UNCHANGED <<cliVars, auxVars, rngVars, negVars, wkVars>>
  \/ SupervisorClose /\ UNCHANGED <<cliVars, auxVars, rngVars, negVars, wkVars>>
  \/ (\E w \in HlWorkers : WorkerReceive(w))
       /\ UNCHANGED <<cliVars, auxVars, rngVars, negVars, wkVars>>
  \/ (\E w \in HlWorkers : WorkerReturn(w))
       /\ UNCHANGED <<cliVars, auxVars, rngVars, negVars, wkVars>>
  \/ (\E w \in HlWorkers : WorkerSend(w))
       /\ UNCHANGED <<cliVars, auxVars, rngVars, negVars, wkVars>>
  \/ ConsumerReceive /\ UNCHANGED <<cliVars, auxVars, rngVars, negVars, wkVars>>
  \/ ConsumerReturn /\ UNCHANGED <<cliVars, auxVars, rngVars, negVars, wkVars>>

SpecServeList == InitServeList /\ [][NextServeList]_vars

SpecServeListFair == SpecServeList /\ WF_vars(NextServeList)

(***************************************************************************)
(* Walk and walk: the archive walk and its consumer.  A path of the        *)
(* archive scheme is the tuple of its fixed-width fields: <<h>> is the     *)
(* directory of hour h, <<h, m>> the file of minute m in it.  With fields  *)
(* of fixed width the lexical order of the path strings is the order of    *)
(* the tuples, a directory before the files in it.  ListPaths, NewReader   *)
(* and the reader's Packets are declared outside the files at hand: the    *)
(* given paths are distinct paths of the scheme in any order, and a reader *)
(* delivers the packets of its file in order.                              *)
(***************************************************************************)
MaxFilePackets == 2   \* packets a reader delivers from one file
MaxPaths == 2         \* paths given to one Walk

WkHours == {1, 2}
WkMinutes == {1, 2}

WkDirs == {<<h>> : h \in WkHours}
WkFiles == {<<h, m>> : h \in WkHours, m \in WkMinutes}

\* strings.Compare(a, b) < 0 on the path strings.
RECURSIVE PathLess(_, _)
PathLess(a, b) ==
  IF a = << >> THEN b # << >>
  ELSE IF b = << >> THEN FALSE
  ELSE IF Head(a) # Head(b) THEN Head(a) < Head(b)
  ELSE PathLess(Tail(a), Tail(b))

PathUnder(a, b) == Len(a) > Len(b) /\ SubSeq(a, 1, Len(b)) = b

RECURSIVE InsertSorted(_, _)
InsertSorted(s, p) ==
  IF s = << >> THEN <<p>>
  ELSE IF PathLess(p, Head(s)) THEN <<p>> \o s
  ELSE <<Head(s)>> \o InsertSorted(Tail(s), p)

\* sort.Strings(paths)
RECURSIVE SortStrings(_)
SortStrings(s) ==
  IF s = << >> THEN << >> ELSE InsertSorted(SortStrings(Tail(s)), Head(s))

\* filepath.Walk(p, fn): the files fn is called on, in the order of the
\* calls: p itself, or the entries of the directory p in lexical order.
RECURSIVE EntriesFrom(_, _)
EntriesFrom(dir, ms) ==
  IF ms = {} THEN << >>
  ELSE LET m == CHOOSE x \in ms : \A y \in ms : x <= y
       IN  <<dir \o <<m>>>> \o EntriesFrom(dir, ms \ {m})

FilesUnder(p) == IF Len(p) = 2 THEN <<p>> ELSE EntriesFrom(p, WkMinutes)

\* The path lists given to Walk.
WkGiven == UNION {[1..n -> WkDirs \cup WkFiles] : n \in 1..MaxPaths}

\* A plausible slip: the error of one path skipped, the walk going on with
\* the next path.
OnWalkError_NextPath(pc) == [pc EXCEPT !.at = "next", !.pend = << >>]

\* if err := walk(p, q, d); err != nil { return }, then the deferred close(q).
OnWalkError(pc) == [pc EXCEPT !.at = "closed"]

WkInit ==
  /\ wkIn \in [paths : WkGiven, d : {"decoder", "nil"}]
  /\ wkPc = [at |-> "start", todo |-> << >>, pend |-> << >>, cur |-> << >>, k |-> 0]
  /\ wkQ = << >>
  /\ wkOut = << >>
  /\ wkLog = [opens |-> << >>, open |-> 0, reads |-> << >>, closed |-> 0,
              ended |-> FALSE, failed |-> FALSE, left |-> 0]

\* if d == nil { return }
WalkNoDecoder ==
  /\ wkPc.at = "start"
  /\ wkIn.d = "nil"
  /\ wkPc' = [wkPc EXCEPT !.at = "closed"]
  /\ wkLog' = [wkLog EXCEPT !.closed = @ + 1]
  /\ UNCHANGED <<wkIn, wkQ, wkOut>>

\* sort.Strings(paths)
WalkSort ==
  /\ wkPc.at = "start"
  /\ wkIn.d # "nil"
  /\ wkPc' = [wkPc EXCEPT !.at = "next", !.todo = SortStrings(wkIn.paths)]
  /\ UNCHANGED <<wkIn, wkQ, wkOut, wkLog>>

\* for _, p := range paths { walk(p, q, d) }: filepath.Walk visits p.
WalkPath ==
  /\ wkPc.at = "next"
  /\ wkPc.todo # << >>
  /\ wkPc' = [wkPc EXCEPT !.at = "visit", !.todo = Tail(@),
                          !.pend = FilesUnder(Head(wkPc.todo))]
  /\ UNCHANGED <<wkIn, wkQ, wkOut, wkLog>>

\* The paths and files not yet opened when the walk stops.
WkLeft(pc) == Len(pc.todo) + Len(pc.pend)

\* filepath.Walk calls fn with an error (the path or a directory entry
\* cannot be visited): fn returns it, walk returns it, Walk returns.
WalkVisitFails ==
  /\ \/ wkPc.at = "next" /\ wkPc.todo # << >>
     \/ wkPc.at = "visit" /\ wkPc.pend # << >>
  /\ wkPc' = OnWalkError(wkPc)
  /\ wkLog' = [wkLog EXCEPT !.failed = TRUE, !.left = WkLeft(wkPc),
                            !.closed = IF wkPc'.at = "closed" THEN @ + 1 ELSE @]
  /\ UNCHANGED <<wkIn, wkQ, wkOut>>

\* os.Open(p) fails: fn returns the error, walk returns it, Walk returns.
WalkOpenFails ==
  /\ wkPc.at = "visit"
  /\ wkPc.pend # << >>
  /\ wkPc' = OnWalkError(wkPc)
  /\ wkLog' = [wkLog EXCEPT !.failed = TRUE, !.left = WkLeft(wkPc),
                            !.closed = IF wkPc'.at = "closed" THEN @ + 1 ELSE @]
  /\ UNCHANGED <<wkIn, wkQ, wkOut>>

\* r, err := os.Open(p); rt := NewReader(r, d)
WalkOpen ==
  /\ wkPc.at = "visit"
  /\ wkPc.pend # << >>
  /\ wkPc' = [wkPc EXCEPT !.at = "read", !.cur = Head(wkPc.pend),
                          !.pend = Tail(@), !.k = 0]
  /\ wkLog' = [wkLog EXCEPT !.opens = Append(@, Head(wkPc.pend)), !.open = @ + 1]
  /\ UNCHANGED <<wkIn, wkQ, wkOut>>

\* for p := range rt.Packets(): the reader delivers the next packet;
\* q <- p offers it on the unbuffered channel.
WalkRead ==
  /\ wkPc.at = "read"
  /\ wkPc.k < MaxFilePackets
  /\ wkQ = << >>
  /\ LET p == [file |-> wkPc.cur, k |-> wkPc.k + 1]
     IN  /\ wkQ' = <<p>>
         /\ wkLog' = [wkLog EXCEPT !.reads = Append(@, p)]
  /\ wkPc' = [wkPc EXCEPT !.at = "send", !.k = @ + 1]
  /\ UNCHANGED <<wkIn, wkOut>>

\* for p := range queue: the consumer receives, the send completes.
ConsumerTake ==
  /\ wkPc.at = "send"
  /\ wkQ # << >>
  /\ wkOut' = Append(wkOut, Head(wkQ))
  /\ wkQ' = << >>
  /\ wkPc' = [wkPc EXCEPT !.at = "read"]
  /\ UNCHANGED <<wkIn, wkLog>>

\* The reader's channel is closed: defer r.Close(); return nil.
WalkFileEnds ==
  /\ wkPc.at = "read"
  /\ wkPc' = [wkPc EXCEPT !.at = "visit"]
  /\ wkLog' = [wkLog EXCEPT !.open = @ - 1]
  /\ UNCHANGED <<wkIn, wkQ, wkOut>>

\* filepath.Walk returns nil: the next path.
WalkPathEnds ==
  /\ wkPc.at = "visit"
  /\ wkPc.pend = << >>
  /\ wkPc' = [wkPc EXCEPT !.at = "next"]
  /\ UNCHANGED <<wkIn, wkQ, wkOut, wkLog>>

\* The range over the paths ends: defer close(q).
WalkEnds ==
  /\ wkPc.at = "next"
  /\ wkPc.todo = << >>
  /\ wkPc' = [wkPc EXCEPT !.at = "closed"]
  /\ wkLog' = [wkLog EXCEPT !.closed = @ + 1]
  /\ UNCHANGED <<wkIn, wkQ, wkOut>>

\* for p := range queue ends on the closed channel.
ConsumerEnds ==
  /\ wkPc.at = "closed"
  /\ wkLog.closed > 0
  /\ wkQ = << >>
  /\ ~wkLog.ended
  /\ wkLog' = [wkLog EXCEPT !.ended = TRUE]
  /\ UNCHANGED <<wkIn, wkPc, wkQ, wkOut>>

PathNotAfter(a, b) == a = b \/ PathLess(a, b)

WkOneAtATime == wkLog.open <= 1

WkOpensInOrder ==
  \A i, j \in 1..Len(wkLog.opens) :
    i < j => PathNotAfter(wkLog.opens[i], wkLog.opens[j])

WkPacketsInOrder ==
  \A i, j \in 1..Len(wkOut) :
    i < j => /\ PathNotAfter(wkOut[i].file, wkOut[j].file)
             /\ wkOut[i].file = wkOut[j].file => wkOut[i].k < wkOut[j].k

WkEachOnce ==
  /\ wkOut \o wkQ = wkLog.reads
  /\ wkLog.ended => wkOut = wkLog.reads

\* No file is opened a second time.
WkOpenedOnce ==
  \A i, j \in 1..Len(wkLog.opens) : i # j => wkLog.opens[i] # wkLog.opens[j]

C19_FailureStopsAndCloses ==
  wkLog.failed =>
    /\ wkPc.at = "closed"
    /\ wkLog.closed = 1
    /\ WkLeft(wkPc) = wkLog.left
    /\ wkQ = << >>
    /\ wkOut = wkLog.reads

\* The walk failed with packets received before it and with paths or files
\* left unopened, and the consumer reached the end of the stream.
C19_Witness ==
  /\ wkLog.failed /\ wkLog.ended
  /\ Len(wkOut) >= 2
  /\ wkLog.left >= 2
  /\ wkPc.todo # << >>

(***************************************************************************)
(* The walk's specification.                                               *)
(***************************************************************************)
InitWalk == WkInit /\ CliIdle /\ AuxIdle /\ RngIdle /\ NegIdle /\ HlIdle

NextWalk ==
  \/ WalkNoDecoder /\ UNCHANGED <<cliVars, auxVars, rngVars, negVars, hlVars>>
  \/ WalkSort /\ UNCHANGED <<cliVars, auxVars, rngVars, negVars, hlVars>>
  \/ WalkPath /\ UNCHANGED <<cliVars, auxVars, rngVars, negVars, hlVars>>
  \/ WalkVisitFails /\ UNCHANGED <<cliVars, auxVars, rngVars, negVars, hlVars>>
  \/ WalkOpenFails /\ UNCHANGED <<cliVars, auxVars, rngVars, negVars, hlVars>>
  \/ WalkOpen /\ UNCHANGED <<cliVars, auxVars, rngVars, negVars, hlVars>>
  \/ WalkRead /\ UNCHANGED <<cliVars, auxVars, rngVars, negVars, hlVars>>
  \/ ConsumerTake /\ UNCHANGED <<cliVars, auxVars, rngVars, negVars, hlVars>>
  \/ WalkFileEnds /\ UNCHANGED <<cliVars, auxVars, rngVars, negVars, hlVars>>
  \/ WalkPathEnds /\ UNCHANGED <<cliVars, auxVars, rngVars, negVars, hlVars>>
  \/ WalkEnds /\ UNCHANGED <<cliVars, auxVars, rngVars, negVars, hlVars>>
  \/ ConsumerEnds /\ UNCHANGED <<cliVars, auxVars, rngVars, negVars, hlVars>>

SpecWalk == InitWalk /\ [][NextWalk]_vars


(***************************************************************************)
(* Index ordering: SortHRDIndex and SortTMIndex (src/unnamed/part_000).    *)
(* An index entry carries a timestamp, an identifier, a size and a         *)
(* sequence counter.  Both functions hand a comparator to sort.Slice,      *)
(* which for a slice of fewer than twelve entries is an insertion sort     *)
(* driven by that comparator alone.                                        *)
(***************************************************************************)
MaxIndex == 3

IxTimes == {0, 1}
IxIds == {0, 1}
IxSizes == {0, 1, 2}
IxSeqs == {0, 1}

IxEntries ==
  [Timestamp : IxTimes, Id : IxIds, Size : IxSizes, Sequence : IxSeqs]

IxSlices == UNION {[1..n -> IxEntries] : n \in 0..MaxIndex}

\* The comparator of SortHRDIndex.
lessHRD(a, b) ==
  IF a.Timestamp = b.Timestamp
  THEN IF a.Id # b.Id THEN a.Size < b.Size ELSE a.Sequence < b.Sequence
  ELSE a.Timestamp < b.Timestamp

\* The comparator of SortTMIndex.
lessTM(a, b) ==
  IF a.Timestamp = b.Timestamp
  THEN a.Sequence < b.Sequence
  ELSE a.Timestamp < b.Timestamp

IxLess(kind, a, b) == IF kind = "hrd" THEN lessHRD(a, b) ELSE lessTM(a, b)

IxSwap(s, i, j) == [s EXCEPT ![i] = s[j], ![j] = s[i]]

\* Inner loop of the insertion sort: entry j moves down while it is less
\* than its predecessor.
RECURSIVE IxInsert(_, _, _)
IxInsert(kind, s, j) ==
  IF j > 1 /\ IxLess(kind, s[j], s[j - 1])
  THEN IxInsert(kind, IxSwap(s, j, j - 1), j - 1)
  ELSE s

RECURSIVE IxInsertion(_, _, _)
IxInsertion(kind, s, i) ==
  IF i > Len(s) THEN s ELSE IxInsertion(kind, IxInsert(kind, s, i), i + 1)

SortSlice(kind, s) == IxInsertion(kind, s, 2)

SortHRDIndex(ix) == SortSlice("hrd", ix)

SortTMIndex(ix) == SortSlice("tm", ix)

IxInit ==
  /\ ixIn \in [kind : {"hrd", "tm"}, ix : IxSlices]
  /\ ixOut = [done |-> FALSE]

ApplySortHRDIndex ==
  /\ ixIn.kind = "hrd" /\ ~ixOut.done
  /\ ixOut' = [done |-> TRUE, ix |-> SortHRDIndex(ixIn.ix)]
  /\ UNCHANGED ixIn

ApplySortTMIndex ==
  /\ ixIn.kind = "tm" /\ ~ixOut.done
  /\ ixOut' = [done |-> TRUE, ix |-> SortTMIndex(ixIn.ix)]
  /\ UNCHANGED ixIn

IxGiven == {ixIn.ix[i] : i \in DOMAIN ixIn.ix}

IxLt(a, b) == IxLess(ixIn.kind, a, b)

IxEquiv(a, b) == ~IxLt(a, b) /\ ~IxLt(b, a)

IxStrictWeak ==
  /\ \A a \in IxGiven : ~IxLt(a, a)
  /\ \A a, b \in IxGiven : IxLt(a, b) => ~IxLt(b, a)
  /\ \A a, b, c \in IxGiven : IxLt(a, b) /\ IxLt(b, c) => IxLt(a, c)
  /\ \A a, b, c \in IxGiven : IxEquiv(a, b) /\ IxEquiv(b, c) => IxEquiv(a, c)

IxByTime ==
  \A i, j \in DOMAIN ixOut.ix :
    i < j => ixOut.ix[i].Timestamp <= ixOut.ix[j].Timestamp

IxRearranged ==
  {[i \in DOMAIN ixIn.ix |-> ixIn.ix[f[i]]] :
     f \in {g \in [DOMAIN ixIn.ix -> DOMAIN ixIn.ix] :
              \A i, j \in DOMAIN ixIn.ix : i # j => g[i] # g[j]}}

IxOrderFree ==
  \A q \in IxRearranged :
    \A i \in DOMAIN ixOut.ix :
      IxEquiv(SortSlice(ixIn.kind, q)[i], ixOut.ix[i])

(***************************************************************************)
(* C28.  Index ordering: the less-than relation that SortHRDIndex and      *)
(* SortTMIndex sort with is a strict weak ordering over the entries        *)
(* (irreflexive, asymmetric, transitive, incomparability transitive) for   *)
(* every combination of timestamp, identifier, size and sequence, so the   *)
(* sorted slice is non-decreasing in timestamp and, up to entries that     *)
(* compare as equal, is the same for every input order.                    *)
(***************************************************************************)
C28_StrictWeakOrdering ==
  ixOut.done => IxStrictWeak /\ IxByTime /\ IxOrderFree

InitIndex == IxInit /\ CliIdle /\ SrvIdle /\ MxIdle /\ DlIdle /\ DfIdle

NextIndex ==
  \/ ApplySortHRDIndex /\ UNCHANGED <<cliVars, srvVars, mxVars, dlVars, dfVars>>
  \/ ApplySortTMIndex /\ UNCHANGED <<cliVars, srvVars, mxVars, dlVars, dfVars>>

SpecIndex == InitIndex /\ [][NextIndex]_vars

(***************************************************************************)
(* mixReaders.Read under runMix (src/take.go).  A Scanner (not in src/)    *)
(* is taken by its contract: Scan advances to the next packet and says     *)
(* whether there is one, Bytes is the packet of the last successful Scan   *)
(* and is empty before the first one.  rand.Intn is a free choice of ix.   *)
(***************************************************************************)
MaxMix == 2    \* packets in one source of the mix

MixNames == <<"source", "target">>

EmptyChunk == << >>

\* ScanFile: a scanner over the n packets of a file, none scanned yet.
ScanFile(name, n) == [name |-> name, n |-> n, pos |-> 0]

\* Scanner.Scan
ScanOk(s) == s.pos < s.n

ScanNext(s) == IF ScanOk(s) THEN [s EXCEPT !.pos = @ + 1] ELSE s

\* Scanner.Bytes
ScanBytes(s) == IF s.pos = 0 THEN EmptyChunk ELSE <<s.name, s.pos>>

\* append(m.rs[:ix], m.rs[ix+1:]...), ix counted from 1.
RemoveAt(ms, ix) == SubSeq(ms, 1, ix - 1) \o SubSeq(ms, ix + 1, Len(ms))

\* mixReaders.Read with rand.Intn(len(m.rs)) = ix - 1: the scanners left,
\* the chunk copied into bs and whether io.EOF is returned.
mixRead(ms, ix) ==
  IF ScanOk(ms[ix])
  THEN LET rs1 == [ms EXCEPT ![ix] = ScanNext(ms[ix])]
       IN [rs |-> rs1, chunk |-> ScanBytes(rs1[ix]), eof |-> FALSE]
  ELSE IF Len(ms) > 1
       THEN LET rs1 == RemoveAt(ms, ix)
                jx == ((ix - 1 + 1) % Len(rs1)) + 1
            IN [rs |-> rs1, chunk |-> ScanBytes(rs1[jx]), eof |-> FALSE]
       ELSE [rs |-> ms, chunk |-> EmptyChunk, eof |-> TRUE]

MxInit ==
  /\ \E a, b \in 0..MaxMix :
       /\ mxIn = [source |-> a, target |-> b]
       /\ mxRs = <<ScanFile(MixNames[1], a), ScanFile(MixNames[2], b)>>
  /\ mxOut = << >>
  /\ mxPc = "read"

\* Read: the chosen scanner has a next packet.
MixReadPacket ==
  /\ mxPc = "read"
  /\ \E ix \in 1..Len(mxRs) :
       /\ ScanOk(mxRs[ix])
       /\ mxRs' = mixRead(mxRs, ix).rs
       /\ mxOut' = Append(mxOut, mixRead(mxRs, ix).chunk)
  /\ UNCHANGED <<mxIn, mxPc>>

\* Read: the chosen scanner is exhausted and is not the last one.
MixReadExhausted ==
  /\ mxPc = "read"
  /\ Len(mxRs) > 1
  /\ \E ix \in 1..Len(mxRs) :
       /\ ~ScanOk(mxRs[ix])
       /\ mxRs' = mixRead(mxRs, ix).rs
       /\ mxOut' = Append(mxOut, mixRead(mxRs, ix).chunk)
  /\ UNCHANGED <<mxIn, mxPc>>

\* Read: the last scanner is exhausted, io.EOF.
MixReadEOF ==
  /\ mxPc = "read"
  /\ Len(mxRs) = 1
  /\ mixRead(mxRs, 1).eof
  /\ mxPc' = "eof"
  /\ UNCHANGED <<mxIn, mxRs, mxOut>>

MxPackets ==
  {<<MixNames[1], k>> : k \in 1..mxIn.source}
    \cup {<<MixNames[2], k>> : k \in 1..mxIn.target}

MxNoEmpty == \A i \in DOMAIN mxOut : mxOut[i] # EmptyChunk

MxNoRepeat == \A i, j \in DOMAIN mxOut : i # j => mxOut[i] # mxOut[j]

MxInOrder ==
  \A i, j \in DOMAIN mxOut :
    i < j /\ mxOut[i] # EmptyChunk /\ mxOut[j] # EmptyChunk
      /\ mxOut[i][1] = mxOut[j][1] => mxOut[i][2] <= mxOut[j][2]

MxComplete ==
  mxPc = "eof" => \A p \in MxPackets : \E i \in DOMAIN mxOut : mxOut[i] = p

(***************************************************************************)
(* C25.  Mix reader: for two source scanners and any sequence of random    *)
(* choices, the chunks returned before end-of-file hold every packet of    *)
(* every source exactly once (none repeated, none lost, no empty chunk),   *)
(* the packets of one source keep their order, and end-of-file comes only  *)
(* after all sources are exhausted.                                        *)
(***************************************************************************)
C25_MixEveryPacketOnce ==
  MxNoEmpty /\ MxNoRepeat /\ MxInOrder /\ MxComplete

InitMix == MxInit /\ CliIdle /\ SrvIdle /\ IxIdle /\ DlIdle /\ DfIdle

NextMix ==
  \/ MixReadPacket /\ UNCHANGED <<cliVars, srvVars, ixVars, dlVars, dfVars>>
  \/ MixReadExhausted /\ UNCHANGED <<cliVars, srvVars, ixVars, dlVars, dfVars>>
  \/ MixReadEOF /\ UNCHANGED <<cliVars, srvVars, ixVars, dlVars, dfVars>>

SpecMix == InitMix /\ [][NextMix]_vars

(***************************************************************************)
(* handleDownloads (src/distrib.go) with the Walk producer that feeds it   *)
(* (src/walk.go).  The outcome of timeRange is an input here (timeRange    *)
(* itself is modelled above); the archive window is the sequence of        *)
(* packets the base decoder reads from it, each an identifier and a        *)
(* payload.  DecodeById (not in src/) passes the packets of the requested  *)
(* identifier and skips the others.  The channel between the producer and  *)
(* the handler is unbuffered: a send completes when the handler receives.  *)
(***************************************************************************)
MaxArchive == 3    \* packets in the archive window of one download

DlIds == {0, 1}

IntParam(i) == [k |-> "int", i |-> i]

DlIdParams == {AbsentParam, BadParam} \cup {IntParam(i) : i \in DlIds}

DlPackets == [Id : DlIds, chunk : Chunks]

DlArchives == UNION {[1..n -> DlPackets] : n \in 0..MaxArchive}

\* q.Get("id"): the empty string for an absent parameter.
QueryGet(p) == IF p.k = "absent" THEN "" ELSE IF p.k = "bad" THEN "x" ELSE "int"

\* strconv.Atoi(q.Get("id")): the integer, or 0 and an error.
Atoi(p) == IF p.k = "int" THEN [i |-> p.i, err |-> FALSE] ELSE [i |-> 0, err |-> TRUE]

\* The base decoder d.
BaseDecoder == [byId |-> FALSE]

\* DecodeById(i, d)
DecodeById(i, d) == [byId |-> TRUE, id |-> i]

\* Whether a reader over decoder ds delivers packet p or skips it.
Delivers(ds, p) == ds.byId => p.Id = ds.id

\* The if / else on the id parameter: the status written by http.Error, if
\* any, and the decoder handed to Walk.
DownloadDecoder(p) ==
  IF Atoi(p).err /\ QueryGet(p) # ""
  THEN [codes |-> <<StatusBadRequest>>, ds |-> BaseDecoder]
  ELSE [codes |-> << >>, ds |-> DecodeById(Atoi(p).i, BaseDecoder)]

\* Index of the next packet at or after i that the decoder delivers, or 0.
RECURSIVE NextDelivered(_, _, _)
NextDelivered(arch, ds, i) ==
  IF i > Len(arch) THEN 0
  ELSE IF Delivers(ds, arch[i]) THEN i ELSE NextDelivered(arch, ds, i + 1)

DlInit ==
  /\ dlReq \in [rangeErr : BOOLEAN, id : DlIdParams, arch : DlArchives]
  /\ dlH = [pc |-> "start"]
  /\ dlW = [pc |-> "none"]
  /\ dlResp = [codes |-> << >>, body |-> << >>, last |-> [set |-> FALSE],
              failed |-> FALSE]

\* timeRange fails: http.Error(400); return.
DownloadBadRange ==
  /\ dlH.pc = "start"
  /\ dlReq.rangeErr
  /\ dlResp' = [dlResp EXCEPT !.codes = Append(@, StatusBadRequest)]
  /\ dlH' = [pc |-> "returned"]
  /\ UNCHANGED <<dlReq, dlW>>

\* The id parameter is examined and Walk is called: its routine starts.
DownloadWalk ==
  /\ dlH.pc = "start"
  /\ ~dlReq.rangeErr
  /\ LET c == DownloadDecoder(dlReq.id)
     IN  /\ dlResp' = [dlResp EXCEPT !.codes = @ \o c.codes]
         /\ dlW' = [pc |-> "run", i |-> 1, ds |-> c.ds]
  /\ dlH' = [pc |-> "range"]
  /\ UNCHANGED dlReq

\* walk: q <- p, the routine waits for the handler to receive.
ProducerOffer ==
  /\ dlW.pc = "run"
  /\ NextDelivered(dlReq.arch, dlW.ds, dlW.i) # 0
  /\ dlW' = [dlW EXCEPT !.pc = "send", !.i = NextDelivered(dlReq.arch, dlW.ds, dlW.i)]
  /\ UNCHANGED <<dlReq, dlH, dlResp>>

\* Walk: no packet is left, defer close(q).
ProducerClose ==
  /\ dlW.pc = "run"
  /\ NextDelivered(dlReq.arch, dlW.ds, dlW.i) = 0
  /\ dlW' = [dlW EXCEPT !.pc = "closed"]
  /\ UNCHANGED <<dlReq, dlH, dlResp>>

\* for p := range queue: the handler receives, the send completes.
DownloadReceive ==
  /\ dlH.pc = "range"
  /\ dlW.pc = "send"
  /\ dlH' = [pc |-> "write", p |-> dlReq.arch[dlW.i]]
  /\ dlW' = [dlW EXCEPT !.pc = "run", !.i = @ + 1]
  /\ UNCHANGED <<dlReq, dlResp>>

\* for p := range queue: the queue is closed, the handler returns.
DownloadRangeEnds ==
  /\ dlH.pc = "range"
  /\ dlW.pc = "closed"
  /\ dlH' = [pc |-> "returned"]
  /\ UNCHANGED <<dlReq, dlW, dlResp>>

\* ws.Write(bs[cut:]) succeeds (or the filter suppresses the payload).
DownloadWrite ==
  /\ dlH.pc = "write"
  /\ LET r == NoDuplicateWrite(dlResp.last, dlH.p.chunk)
     IN  dlResp' = [dlResp EXCEPT
                      !.last = r.last,
                      !.body = IF r.through THEN Append(@, dlH.p.chunk) ELSE @]
  /\ dlH' = [pc |-> "range"]
  /\ UNCHANGED <<dlReq, dlW>>

\* ws.Write(bs[cut:]) fails: http.Error(500); return.
DownloadWriteFails ==
  /\ dlH.pc = "write"
  /\ NoDuplicateWrite(dlResp.last, dlH.p.chunk).through
  /\ dlResp' = [dlResp EXCEPT !.codes = Append(@, StatusInternalServerError),
                              !.failed = TRUE]
  /\ dlH' = [pc |-> "returned"]
  /\ UNCHANGED <<dlReq, dlW>>

DlStarted == dlW.pc # "none"

\* The payloads that reach the response when the chunks cs go through the
\* duplicate filter one after the other.
RECURSIVE DlThrough(_, _)
DlThrough(cs, last) ==
  IF cs = << >> THEN << >>
  ELSE LET r == NoDuplicateWrite(last, Head(cs))
       IN  (IF r.through THEN <<Head(cs)>> ELSE << >>) \o DlThrough(Tail(cs), r.last)

DlChunks(arch) == [i \in DOMAIN arch |-> arch[i].chunk]

DlOfId(arch, i) == SelectSeq(arch, LAMBDA p : p.Id = i)

DlReturnedNormally == dlH.pc = "returned" /\ ~dlResp.failed /\ ~dlReq.rangeErr

(***************************************************************************)
(* C22.  Download handler, malformed identifier: a request whose id        *)
(* parameter is present but is not an integer is answered with the         *)
(* client-error status only; the archive is not walked and no packet       *)
(* payload byte is written to the response.                                *)
(***************************************************************************)
C22_BadIdAnswered400Only ==
  dlReq.id = BadParam /\ dlH.pc # "start" =>
    /\ dlResp.codes = <<StatusBadRequest>>
    /\ ~DlStarted
    /\ dlResp.body = << >>

(***************************************************************************)
(* C23.  Download handler, optional identifier: the by-identifier filter   *)
(* is applied only when an id parameter is supplied; a request without id  *)
(* streams the payloads of the packets of every identifier in the window   *)
(* (the base decoder is used, no filter on identifier 0), a request with   *)
(* an id those of that identifier.                                         *)
(***************************************************************************)
C23_FilterOnlyWhenIdSupplied ==
  /\ dlReq.id = AbsentParam /\ DlStarted => dlW.ds = BaseDecoder
  /\ dlReq.id = AbsentParam /\ DlReturnedNormally =>
       dlResp.body = DlThrough(DlChunks(dlReq.arch), [set |-> FALSE])
  /\ dlReq.id.k = "int" /\ DlReturnedNormally =>
       dlResp.body = DlThrough(DlChunks(DlOfId(dlReq.arch, dlReq.id.i)), [set |-> FALSE])

(***************************************************************************)
(* C27.  Walker termination: once started, the Walk producer routine       *)
(* always eventually closes its output channel and ends, also for an       *)
(* empty archive window; in particular after the download handler has      *)
(* returned, normally or early on a write error, the producer is not left  *)
(* blocked forever on a send.                                              *)
(***************************************************************************)
C27_ProducerAlwaysCloses == DlStarted ~> (dlW.pc = "closed")

InitDownload == DlInit /\ CliIdle /\ SrvIdle /\ IxIdle /\ MxIdle /\ DfIdle

NextDownload ==
  \/ DownloadBadRange /\ UNCHANGED <<cliVars, srvVars, ixVars, mxVars, dfVars>>
  \/ DownloadWalk /\ UNCHANGED <<cliVars, srvVars, ixVars, mxVars, dfVars>>
  \/ ProducerOffer /\ UNCHANGED <<cliVars, srvVars, ixVars, mxVars, dfVars>>
  \/ ProducerClose /\ UNCHANGED <<cliVars, srvVars, ixVars, mxVars, dfVars>>
  \/ DownloadReceive /\ UNCHANGED <<cliVars, srvVars, ixVars, mxVars, dfVars>>
  \/ DownloadRangeEnds /\ UNCHANGED <<cliVars, srvVars, ixVars, mxVars, dfVars>>
  \/ DownloadWrite /\ UNCHANGED <<cliVars, srvVars, ixVars, mxVars, dfVars>>
  \/ DownloadWriteFails /\ UNCHANGED <<cliVars, srvVars, ixVars, mxVars, dfVars>>

SpecDownload == InitDownload /\ [][NextDownload]_vars

\* Every routine that can take a step eventually takes one.
SpecDownloadFair == SpecDownload /\ WF_vars(NextDownload)

(***************************************************************************)
(* The sequence tracker: the loop of runDiff (src/cmd/vmucat/main.go) and  *)
(* the loops of handleGaps and handleStatus (src/distrib.go).  All three   *)
(* keep a map from identifier to the last packet stored for it, compare    *)
(* each packet with that entry alone and then store the packet.  runDiff   *)
(* reads VMU packets with the detector chosen by -b and the maximum gap    *)
(* duration of -d and drops invalid packets unless -e is given;            *)
(* handleGaps and handleStatus read the packets of the walk and use        *)
(* Packet.Diff, handleGaps to list the gaps, handleStatus to add their     *)
(* missing counts to the Coze of the identifier.                           *)
(***************************************************************************)
MaxDiffs == 3      \* decode calls (or packets of the walk) of one run

DfIds == {1, 2}
DfSeqs == {1, 2}
DfTimes == {1, 3}
DfDurations == {1}     \* the default of -d, one time unit

DfConfigs ==
  [mode : {"diff"}, by : {"channel", "origin"}, keepInvalid : BOOLEAN,
   duration : DfDurations]
    \cup {[mode |-> m, by |-> "id", keepInvalid |-> TRUE, duration |-> 0] :
            m \in {"gaps", "stats"}}

DfPackets(cfg) ==
  IF cfg.mode # "diff"
  THEN {StPacket(id, sq, 1, 0, t) : id \in StIds, sq \in DfSeqs, t \in DfTimes}
  ELSE IF cfg.by = "channel"
       THEN {VmuPacket(id, 0, sq, 0, t, ZeroTime, 0) :
               id \in DfIds, sq \in DfSeqs, t \in DfTimes}
       ELSE {VmuPacket(0, id, 0, sq, ZeroTime, t, 0) :
               id \in DfIds, sq \in DfSeqs, t \in DfTimes}

\* gapBy(p, prev, *duration), gapBy chosen by -b.
gapBy(by, p, prev, duration) ==
  IF by = "channel" THEN gapByChannel(p, prev, duration)
  ELSE gapByOrigin(p, prev, duration)

\* The body of runDiff's loop for a packet decoded with err nil or
\* vmu.ErrInvalid: the map afterwards and the gaps written to the output.
DiffPacket(sn, cfg, p, invalid) ==
  IF invalid /\ ~cfg.keepInvalid
  THEN [seen |-> sn, out |-> << >>]
  ELSE LET by == getBy(cfg.by, p)
           r  == IF by \in DOMAIN sn
                 THEN gapBy(cfg.by, p, sn[by], cfg.duration)
                 ELSE [ok |-> FALSE, g |-> ZeroGap]
       IN  [seen |-> TrackerStore(sn, by, p, r.ok),
            out  |-> IF r.ok THEN <<r.g>> ELSE << >>]

\* The body of handleGaps' loop for the packet curr.
GapsPacket(sn, curr) ==
  LET id == curr.Id
      g  == PacketDiff(curr, MapGet(sn, id, NilPacket))
  IN  [seen |-> TrackerStore(sn, id, curr, ~g.nil),
       out  |-> IF g.nil THEN << >> ELSE <<g.g>>]

DfInit ==
  /\ dfCfg \in DfConfigs
  /\ dfSeen = << >>
  /\ dfHist = << >>
  /\ dfOut = << >>
  /\ dfStats = << >>
  /\ dfPc = "loop"

DfTag(at, found) == [i \in DOMAIN found |-> [at |-> at, g |-> found[i]]]

\* d.Decode returns a packet, err nil or vmu.ErrInvalid.
DiffDecodePacket ==
  /\ dfPc = "loop" /\ dfCfg.mode = "diff"
  /\ Len(dfHist) < MaxDiffs
  /\ \E p \in DfPackets(dfCfg), invalid \in BOOLEAN :
       LET r == DiffPacket(dfSeen, dfCfg, p, invalid)
       IN  /\ dfSeen' = r.seen
           /\ dfOut' = dfOut \o DfTag(Len(dfHist) + 1, r.out)
           /\ dfHist' = Append(dfHist, [kind |-> "packet", p |-> p, invalid |-> invalid])
  /\ UNCHANGED <<dfCfg, dfStats, dfPc>>

\* case vmu.ErrSkip: nothing.
DiffDecodeSkip ==
  /\ dfPc = "loop" /\ dfCfg.mode = "diff"
  /\ Len(dfHist) < MaxDiffs
  /\ dfHist' = Append(dfHist, [kind |-> "skip"])
  /\ UNCHANGED <<dfCfg, dfSeen, dfOut, dfStats, dfPc>>

\* case io.EOF: return nil.
DiffDecodeEOF ==
  /\ dfPc = "loop" /\ dfCfg.mode = "diff"
  /\ dfPc' = "done"
  /\ UNCHANGED <<dfCfg, dfSeen, dfHist, dfOut, dfStats>>

\* default: return err.
DiffDecodeError ==
  /\ dfPc = "loop" /\ dfCfg.mode = "diff"
  /\ dfPc' = "failed"
  /\ UNCHANGED <<dfCfg, dfSeen, dfHist, dfOut, dfStats>>

\* for curr := range queue: the walk delivers the next packet.
GapsReceive ==
  /\ dfPc = "loop" /\ dfCfg.mode = "gaps"
  /\ Len(dfHist) < MaxDiffs
  /\ \E p \in DfPackets(dfCfg) :
       LET r == GapsPacket(dfSeen, p)
       IN  /\ dfSeen' = r.seen
           /\ dfOut' = dfOut \o DfTag(Len(dfHist) + 1, r.out)
           /\ dfHist' = Append(dfHist, [kind |-> "packet", p |-> p, invalid |-> FALSE])
  /\ UNCHANGED <<dfCfg, dfStats, dfPc>>

\* The queue is closed: return ds, nil.
GapsReturn ==
  /\ dfPc = "loop" /\ dfCfg.mode = "gaps"
  /\ dfPc' = "done"
  /\ UNCHANGED <<dfCfg, dfSeen, dfHist, dfOut, dfStats>>

\* handleStatus, for p := range queue: the walk delivers the next packet;
\* the loop body ends with gs[id], ps[id] = c, p.
StatsReceive ==
  /\ dfPc = "loop" /\ dfCfg.mode = "stats"
  /\ Len(dfHist) < MaxDiffs
  /\ \E p \in DfPackets(dfCfg) :
       LET r == StatusFold(dfStats, dfSeen, p, "hrd")
       IN  /\ dfStats' = r.gs
           /\ dfSeen' = r.ps
           /\ dfHist' = Append(dfHist, [kind |-> "packet", p |-> p, invalid |-> FALSE])
  /\ UNCHANGED <<dfCfg, dfOut, dfPc>>

\* handleStatus: the queue is closed, the cozes are returned.
StatsReturn ==
  /\ dfPc = "loop" /\ dfCfg.mode = "stats"
  /\ dfPc' = "done"
  /\ UNCHANGED <<dfCfg, dfSeen, dfHist, dfOut, dfStats>>

\* What the stream held, for the claim.
DfIdOf(p) == IF dfCfg.mode = "diff" THEN getBy(dfCfg.by, p) ELSE p.Id

\* Entry i of the stream is a packet that reached the tracker.
DfKeptAt(i) ==
  /\ dfHist[i].kind = "packet"
  /\ ~dfHist[i].invalid \/ dfCfg.keepInvalid

DfKeptOf(id) == {i \in DOMAIN dfHist : DfKeptAt(i) /\ DfIdOf(dfHist[i].p) = id}

DfMax(S) == CHOOSE m \in S : \A x \in S : x <= m

\* The kept packets of the identifier of entry i that came before it.
DfBefore(i) == {j \in DfKeptOf(DfIdOf(dfHist[i].p)) : j < i}

\* The gap between two packets by the detector of the mode, as a set.
DfGapOf(p, prev) ==
  IF dfCfg.mode = "diff"
  THEN LET r == gapBy(dfCfg.by, p, prev, dfCfg.duration)
       IN  IF r.ok THEN {r.g} ELSE {}
  ELSE LET d == PacketDiff(p, prev) IN IF d.nil THEN {} ELSE {d.g}

\* The gaps expected: each kept packet against the latest kept packet of
\* its identifier before it, none for the first of an identifier.
DfExpected ==
  UNION {{[at |-> i, g |-> g] :
            g \in DfGapOf(dfHist[i].p, dfHist[DfMax(DfBefore(i))].p)} :
           i \in {k \in DOMAIN dfHist : DfKeptAt(k) /\ DfBefore(k) # {}}}

DfAllIds == DfIds \cup StIds

\* The missing counts of the expected gaps of the entries in S, added as
\* handleStatus adds them: uint64(g.Missing()), wrapping.
RECURSIVE DfMissingSum(_)
DfMissingSum(S) ==
  IF S = {} THEN 0
  ELSE LET e == CHOOSE x \in S : TRUE
       IN  (ToUint64(GapMissing(e.g)) + DfMissingSum(S \ {e})) % Uint64Mod

\* runDiff and handleGaps report exactly the expected gaps, in arrival
\* order; handleStatus adds exactly their missing counts to the Coze of
\* the identifier.
DfComparedWithEntry ==
  IF dfCfg.mode = "stats"
  THEN /\ DOMAIN dfStats = DOMAIN dfSeen
       /\ \A id \in DOMAIN dfStats :
            dfStats[id].Missing =
              DfMissingSum({e \in DfExpected : e.at \in DfKeptOf(id)})
  ELSE /\ {dfOut[k] : k \in DOMAIN dfOut} = DfExpected
       /\ \A k, l \in DOMAIN dfOut : k < l => dfOut[k].at < dfOut[l].at

(***************************************************************************)
(* C21.  Sequence-tracker state (runDiff, handleGaps, handleStatus):       *)
(* after each processed packet the per-identifier map holds, for every     *)
(* identifier, the most recent packet of that identifier that was kept;    *)
(* each packet is compared only with that entry and the entry is replaced  *)
(* whether or not a gap was reported, so the gaps reported (runDiff,       *)
(* handleGaps) or counted (handleStatus) are exactly those between a kept  *)
(* packet and the latest kept packet of its identifier before it, in       *)
(* arrival order; packets of other identifiers never change an entry, in   *)
(* runDiff an invalid packet dropped by the keep-invalid flag is neither   *)
(* compared nor stored, and the first packet of an identifier reports no   *)
(* gap.                                                                    *)
(***************************************************************************)
C21_TrackerHoldsLastKept ==
  /\ DOMAIN dfSeen = {id \in DfAllIds : DfKeptOf(id) # {}}
  /\ \A id \in DOMAIN dfSeen : dfSeen[id] = dfHist[DfMax(DfKeptOf(id))].p
  /\ DfComparedWithEntry

\* Three kept packets of one identifier in runDiff, with a packet of
\* another identifier in between or not: the discontinuity between the
\* first two is absorbed by the maximum gap duration, the third is
\* compared with the second and reports a gap.
C21_Witness ==
  /\ dfCfg.mode = "diff" /\ Len(dfHist) = MaxDiffs
  /\ \E id \in DfIds :
       /\ DfKeptOf(id) = DOMAIN dfHist
       /\ DfGapOf(dfHist[2].p, dfHist[1].p) = {}
       /\ gapBy(dfCfg.by, dfHist[2].p, dfHist[1].p, 0).ok
       /\ DfGapOf(dfHist[3].p, dfHist[1].p) = {}
       /\ \E k \in DOMAIN dfOut : dfOut[k].at = 3

InitTracker == DfInit /\ CliIdle /\ SrvIdle /\ IxIdle /\ MxIdle /\ DlIdle

NextTracker ==
  \/ DiffDecodePacket /\ UNCHANGED <<cliVars, srvVars, ixVars, mxVars, dlVars>>
  \/ DiffDecodeSkip /\ UNCHANGED <<cliVars, srvVars, ixVars, mxVars, dlVars>>
  \/ DiffDecodeEOF /\ UNCHANGED <<cliVars, srvVars, ixVars, mxVars, dlVars>>
  \/ DiffDecodeError /\ UNCHANGED <<cliVars, srvVars, ixVars, mxVars, dlVars>>
  \/ GapsReceive /\ UNCHANGED <<cliVars, srvVars, ixVars, mxVars, dlVars>>
  \/ GapsReturn /\ UNCHANGED <<cliVars, srvVars, ixVars, mxVars, dlVars>>
  \/ StatsReceive /\ UNCHANGED <<cliVars, srvVars, ixVars, mxVars, dlVars>>
  \/ StatsReturn /\ UNCHANGED <<cliVars, srvVars, ixVars, mxVars, dlVars>>

SpecTracker == InitTracker /\ [][NextTracker]_vars
=============================================================================
